---- MODULE Spec2Model ----
(***************************************************************************)
(* Metadata decode / classify / normalize pipeline of the local image      *)
(* browser (src/unnamed/part_001): PNG chunk scan and format cascade,      *)
(* the field extractors, the board name resolver and processDirectory.     *)
(*                                                                         *)
(* JavaScript values are tagged records [t |-> type, v |-> payload]:       *)
(*   strings  carry the sequence of their character codes,                 *)
(*   objects  carry the sequence of their <<key, value>> entries in        *)
(*            insertion order (keys are TLA+ strings),                     *)
(*   arrays   carry the sequence of their items.                           *)
(* An ImageMetadata object carries, next to its entries, the variant the   *)
(* type guards of ../types recognise it as.                                *)
(***************************************************************************)
EXTENDS Integers, Sequences, FiniteSets, TLC

VARIABLES
    boardIdCache,   \* Map<string,string> of line 871: [board id -> friendly name]
    boardCounter,   \* let boardCounter of line 872
    resolved,       \* history: <<board id, name>> pairs getFriendlyBoardName returned
    watch,          \* history: one earlier extractor call, kept for comparison
    last,           \* the most recent extractor call and its result
    buffer,         \* parseImageMetadata: the bytes file.arrayBuffer() gave
    exif,           \* parseJPEGMetadata: what exifr's parse does on the buffer
    pc,             \* parseImageMetadata: where the call is
    offset,         \* parsePNGMetadata: let offset of line 891
    chunks,         \* parsePNGMetadata: const chunks of line 895
    outcome,        \* how the promise parseImageMetadata returned has settled
    runs,           \* processDirectory: each call's position and locals
    comfyCall       \* parseComfyUIMetadata: the call's position and locals

boardVars   == <<boardIdCache, boardCounter, resolved>>
extractVars == <<watch, last>>
parseVars   == <<buffer, exif, pc, offset, chunks, outcome>>
dirVars     == <<runs>>
comfyVars   == <<comfyCall>>
vars        == <<boardIdCache, boardCounter, resolved, watch, last,
                 buffer, exif, pc, offset, chunks, outcome, runs, comfyCall>>

----------------------------------------------------------------------------
(* JavaScript values *)

Undefined == [t |-> "undefined"]
Null      == [t |-> "null"]
Str(s)    == [t |-> "string", v |-> s]
Num(n)    == [t |-> "number", v |-> n]
Arr(s)    == [t |-> "array", v |-> s]
Obj(e)    == [t |-> "object", v |-> e]
\* an object the type guards classify as `variant`
Md(variant, e) == [t |-> "object", v |-> e, variant |-> variant]

\* typeof
TypeOf(x) == IF x.t \in {"object", "array", "null"} THEN "object" ELSE x.t

\* ToBoolean
Truthy(x) ==
    CASE x.t = "undefined" -> FALSE
      [] x.t = "null"      -> FALSE
      [] x.t = "string"    -> Len(x.v) > 0
      [] x.t = "number"    -> x.v # 0
      [] OTHER             -> TRUE

IsString(x) == x.t = "string"
IsNumber(x) == x.t = "number"
IsArray(x)  == x.t = "array"

RECURSIVE Lookup(_, _, _)
Lookup(entries, key, i) ==
    IF i > Len(entries) THEN Undefined
    ELSE IF entries[i][1] = key THEN entries[i][2]
    ELSE Lookup(entries, key, i + 1)

\* o.key / o['key'] on a value that is not null or undefined
Get(o, key) == IF o.t = "object" THEN Lookup(o.v, key, 1) ELSE Undefined

\* 'key' in o
HasKey(o, key) == o.t = "object" /\ \E i \in 1..Len(o.v) : o.v[i][1] = key

----------------------------------------------------------------------------
(* Strings: sequences of character codes *)

WhiteSpace == {9, 10, 11, 12, 13, 32}

RECURSIVE TrimStart(_)
TrimStart(s) ==
    IF s # <<>> /\ Head(s) \in WhiteSpace THEN TrimStart(Tail(s)) ELSE s

RECURSIVE TrimEnd(_)
TrimEnd(s) ==
    IF s # <<>> /\ s[Len(s)] \in WhiteSpace
    THEN TrimEnd(SubSeq(s, 1, Len(s) - 1)) ELSE s

\* String.prototype.trim
Trim(s) == TrimEnd(TrimStart(s))

\* Number to decimal string, as a template literal renders an integer >= 0
RECURSIVE ToDecimal(_)
ToDecimal(n) ==
    IF n < 10 THEN <<48 + n>> ELSE ToDecimal(n \div 10) \o <<48 + (n % 10)>>

\* "My Board "
MyBoardPrefix == <<77, 121, 32, 66, 111, 97, 114, 100, 32>>
\* "Uncategorized"
Uncategorized == <<85, 110, 99, 97, 116, 101, 103, 111, 114, 105, 122, 101, 100>>

----------------------------------------------------------------------------
(* Board name resolver, lines 870-886 *)

\* variant for comparison: a lookup that never finds the id
NeverCached(cache, boardId) == FALSE

\* variant for comparison: a counter that is not advanced
CounterKept(counter) == counter

\* variant for comparison: a set that drops the entries already stored
CacheReplaced(cache, boardId, friendlyName) ==
    [k \in {boardId} |-> friendlyName]

\* variant for comparison: a set that stores nothing
CacheNotStored(cache, boardId, friendlyName) == cache

\* boardIdCache.has(boardId)
BoardCacheHas(cache, boardId) == boardId \in DOMAIN cache

\* `My Board ${boardCounter}`
FriendlyName(counter) == Str(MyBoardPrefix \o ToDecimal(counter))

\* variant for comparison: the counter advances by two
CounterSkips(counter) == counter + 2

\* boardCounter++
IncrementCounter(counter) == counter + 1

\* boardIdCache.set(boardId, friendlyName)
BoardCacheSet(cache, boardId, friendlyName) ==
    [k \in DOMAIN cache \cup {boardId} |->
        IF k = boardId THEN friendlyName ELSE cache[k]]

\* A call's outcome: the returned value and the resolver state it leaves.
\* `resolved` lists the <<board id, name>> pairs the resolver returned in it.
Ret(value, cache, counter) ==
    [ret |-> value, cache |-> cache, counter |-> counter, resolved |-> {}]

getFriendlyBoardName(boardId, cache, counter) ==
    IF BoardCacheHas(cache, boardId)
    THEN [Ret(cache[boardId], cache, counter)
            EXCEPT !.resolved = {<<boardId, cache[boardId]>>}]
    ELSE LET friendlyName == FriendlyName(counter)
         IN  [Ret(friendlyName,
                  BoardCacheSet(cache, boardId, friendlyName),
                  IncrementCounter(counter))
                EXCEPT !.resolved = {<<boardId, friendlyName>>}]

----------------------------------------------------------------------------
(* extractBoard, lines 610-736 *)

NoBoard == [found |-> FALSE]
Found(r) == [found |-> TRUE, r |-> r]

\* extractBoardFromWorkflow: the first l2i / canvas_output node of
\* workflow.nodes whose inputs.board.value.board_id is truthy, from index i
RECURSIVE BoardNodeFrom(_, _)
BoardNodeFrom(nodes, i) ==
    IF i > Len(nodes) THEN 0
    ELSE LET data       == Get(nodes[i], "data")
             type       == Get(data, "type")
             boardInput == Get(Get(data, "inputs"), "board")
             boardId    == Get(Get(boardInput, "value"), "board_id")
         IN  IF /\ Truthy(data) /\ Truthy(type)
                /\ type \in {Str(<<108, 50, 105>>),                  \* 'l2i'
                             Str(<<99, 97, 110, 118, 97, 115, 95,
                                   111, 117, 116, 112, 117, 116>>)}   \* 'canvas_output'
                /\ Truthy(Get(data, "inputs")) /\ Truthy(boardInput)
                /\ Truthy(Get(boardInput, "value")) /\ Truthy(boardId)
             THEN i
             ELSE BoardNodeFrom(nodes, i + 1)

extractBoardFromWorkflow(workflow, cache, counter) ==
    IF ~Truthy(workflow) \/ ~Truthy(Get(workflow, "nodes")) THEN NoBoard
    ELSE LET nodes == Get(workflow, "nodes").v
             i     == BoardNodeFrom(nodes, 1)
         IN  IF i = 0 THEN NoBoard
             ELSE Found(getFriendlyBoardName(
                     Get(Get(Get(Get(Get(nodes[i], "data"), "inputs"),
                         "board"), "value"), "board_id"),
                     cache, counter))

\* key.toLowerCase().includes('board'), over the keys the records use
BoardKeys == {"board_name", "board_id", "boardName", "boardId",
              "Board Name", "board", "dashboard"}

\* lines 704-708: first entry whose key contains 'board' and whose value is
\* a string that is not blank
RECURSIVE BoardEntryFrom(_, _)
BoardEntryFrom(entries, i) ==
    IF i > Len(entries) THEN 0
    ELSE IF /\ entries[i][1] \in BoardKeys
            /\ IsString(entries[i][2])
            /\ Trim(entries[i][2].v) # <<>>
         THEN i
         ELSE BoardEntryFrom(entries, i + 1)

\* lines 623-644: the five direct string fields, in order
DirectBoardFields == <<"board_name", "board_id", "boardName", "boardId", "Board Name">>

\* variant for comparison: the direct fields are not looked at
NoDirectField(metadata, i) == 0

RECURSIVE DirectFieldFrom(_, _)
DirectFieldFrom(metadata, i) ==
    IF i > Len(DirectBoardFields) THEN 0
    ELSE LET x == Get(metadata, DirectBoardFields[i])
         IN  IF Truthy(x) /\ IsString(x) THEN i
             ELSE DirectFieldFrom(metadata, i + 1)

\* lines 647-652: board object with name / board_name / id
BoardObjectLabel(boardObj) ==
    IF Truthy(Get(boardObj, "name")) THEN Found(Get(boardObj, "name"))
    ELSE IF Truthy(Get(boardObj, "board_name")) THEN Found(Get(boardObj, "board_name"))
    ELSE IF Truthy(Get(boardObj, "id")) THEN Found(Get(boardObj, "id"))
    ELSE NoBoard

\* variant for comparison: canvas_v2_metadata is not looked at
CanvasIgnored(metadata) == NoBoard

\* lines 660-677: the board id canvas_v2_metadata carries, if any
CanvasBoardId(metadata) ==
    LET canvasData == Get(metadata, "canvas_v2_metadata")
        boardObj   == Get(canvasData, "board")
    IN  IF ~(Truthy(canvasData) /\ TypeOf(canvasData) = "object") THEN NoBoard
        ELSE IF Truthy(Get(canvasData, "board_id"))
             THEN Found(Get(canvasData, "board_id"))
        ELSE IF Truthy(boardObj) /\ TypeOf(boardObj) = "object"
                /\ Truthy(Get(boardObj, "board_id"))
             THEN Found(Get(boardObj, "board_id"))
        ELSE NoBoard

extractBoardFromInvokeAI(metadata, cache, counter) ==
    LET direct   == DirectFieldFrom(metadata, 1)
        board    == Get(metadata, "board")
        boardObj == IF Truthy(board) /\ TypeOf(board) = "object"
                    THEN BoardObjectLabel(board) ELSE NoBoard
        canvas   == CanvasBoardId(metadata)
        workflow == Get(metadata, "workflow")
        fromWf   == IF Truthy(workflow) /\ TypeOf(workflow) = "object"
                    THEN extractBoardFromWorkflow(workflow, cache, counter)
                    ELSE NoBoard
        entry    == BoardEntryFrom(metadata.v, 1)
    IN  IF direct # 0
        THEN Ret(Str(Trim(Get(metadata, DirectBoardFields[direct]).v)), cache, counter)
        ELSE IF boardObj.found THEN Ret(boardObj.r, cache, counter)
        ELSE IF Truthy(board) /\ IsString(board)
             THEN Ret(Str(Trim(board.v)), cache, counter)
        ELSE IF canvas.found THEN getFriendlyBoardName(canvas.r, cache, counter)
        ELSE IF fromWf.found THEN fromWf.r
        ELSE IF entry # 0
             THEN Ret(Str(Trim(metadata.v[entry][2].v)), cache, counter)
        ELSE Ret(Str(Uncategorized), cache, counter)

\* type guard of ../types
isInvokeAIMetadata(metadata) ==
    metadata.t = "object" /\ "variant" \in DOMAIN metadata
    /\ metadata.variant = "InvokeAI"

\* variant for comparison: board fields are read whatever the format
extractBoardAnyFormat(metadata, cache, counter) ==
    extractBoardFromInvokeAI(metadata, cache, counter)

extractBoard(metadata, cache, counter) ==
    IF isInvokeAIMetadata(metadata)
    THEN extractBoardFromInvokeAI(metadata, cache, counter)
    ELSE Ret(Str(Uncategorized), cache, counter)

----------------------------------------------------------------------------
(* Byte buffers: sequences of bytes; offsets are 0-based as in the source *)

Min(a, b) == IF a < b THEN a ELSE b

\* ArrayBuffer.prototype.slice(begin, end) for 0 <= begin <= end
Slice(buf, begin, end) ==
    SubSeq(buf, Min(begin, Len(buf)) + 1, Min(end, Len(buf)))

\* DataView.prototype.getUint32 / getUint16 throw a RangeError when the
\* read would pass the end of the buffer
InRange(buf, at, width) == at + width <= Len(buf)

\* 2^30: a length no buffer of this development comes near
PastAnyBuffer == 1073741824

\* the big-endian value; every value of 2^30 and more (up to 0xFFFFFFFF) is
\* represented by 2^30, which keeps an offset plus a length exact
getUint32(buf, at) ==
    IF buf[at + 1] >= 64 THEN PastAnyBuffer
    ELSE buf[at + 1] * 16777216 + buf[at + 2] * 65536
         + buf[at + 3] * 256 + buf[at + 4]

getUint16(buf, at) == buf[at + 1] * 256 + buf[at + 2]

\* TextDecoder.decode: ASCII bytes decode to themselves; a byte >= 128 that
\* starts no valid UTF-8 sequence decodes to U+FFFD
Decode(bytes) ==
    [i \in 1..Len(bytes) |-> IF bytes[i] < 128 THEN bytes[i] ELSE 65533]

\* index of the first code `c` in s at or after i, 0 if none
RECURSIVE IndexOfCode(_, _, _)
IndexOfCode(s, c, i) ==
    IF i > Len(s) THEN 0
    ELSE IF s[i] = c THEN i
    ELSE IndexOfCode(s, c, i + 1)

\* const [keyword, text] = chunkString.split('\0')
SplitKeyword(chunkString) ==
    LET n == IndexOfCode(chunkString, 0, 1)
    IN  IF n = 0 THEN chunkString ELSE SubSeq(chunkString, 1, n - 1)

SplitText(chunkString) ==
    LET n == IndexOfCode(chunkString, 0, 1)
        m == IF n = 0 THEN 0 ELSE IndexOfCode(chunkString, 0, n + 1)
    IN  IF n = 0 THEN Undefined
        ELSE IF m = 0 THEN Str(SubSeq(chunkString, n + 1, Len(chunkString)))
        ELSE Str(SubSeq(chunkString, n + 1, m - 1))

\* chunk types and tEXt keywords, as character codes
TypeTEXT == <<116, 69, 88, 116>>      \* 'tEXt'
TypeIEND == <<73, 69, 78, 68>>        \* 'IEND'
TypeIDAT == <<73, 68, 65, 84>>        \* 'IDAT'

KwInvokeAI   == <<105, 110, 118, 111, 107, 101, 97, 105, 95,
                  109, 101, 116, 97, 100, 97, 116, 97>>      \* 'invokeai_metadata'
KwParameters == <<112, 97, 114, 97, 109, 101, 116, 101, 114, 115>>  \* 'parameters'
KwWorkflow   == <<119, 111, 114, 107, 102, 108, 111, 119>>   \* 'workflow'
KwPrompt     == <<112, 114, 111, 109, 112, 116>>             \* 'prompt'
KwTitle      == <<84, 105, 116, 108, 101>>                   \* 'Title'

\* ['invokeai_metadata', 'parameters', 'workflow', 'prompt'], line 909
RelevantKeywords ==
    <<[name |-> "invokeai_metadata", codes |-> KwInvokeAI],
      [name |-> "parameters", codes |-> KwParameters],
      [name |-> "workflow", codes |-> KwWorkflow],
      [name |-> "prompt", codes |-> KwPrompt]>>

\* ....includes(keyword): the index of the keyword in the list, 0 if none
KeywordIndex(keyword) ==
    IF \E i \in 1..Len(RelevantKeywords) : RelevantKeywords[i].codes = keyword
    THEN CHOOSE i \in 1..Len(RelevantKeywords) : RelevantKeywords[i].codes = keyword
    ELSE 0

\* chunks[keyword] = text
ChunksSet(blobs, name, text) ==
    [k \in DOMAIN blobs \cup {name} |-> IF k = name THEN text ELSE blobs[k]]

\* chunks.name
ChunksGet(blobs, name) == IF name \in DOMAIN blobs THEN blobs[name] ELSE Undefined

\* variant for comparison: the offset is left where it is
SameOffset(at, length) == at

\* offset += 12 + length, line 919
NextOffset(at, length) == at + 12 + length

\* variant for comparison: the loop has no break at IEND
ScanStepPastEnd(buf, at, blobs) ==
    LET length      == getUint32(buf, at)
        type        == Decode(Slice(buf, at + 4, at + 8))
        chunkString == Decode(Slice(buf, at + 8, at + 8 + length))
        keyword     == SplitKeyword(chunkString)
        text        == SplitText(chunkString)
        idx         == KeywordIndex(keyword)
    IN  [chunks |-> IF type = TypeTEXT /\ idx # 0 /\ Truthy(text)
                    THEN ChunksSet(blobs, RelevantKeywords[idx].name, text)
                    ELSE blobs,
         stop   |-> FALSE,
         offset |-> NextOffset(at, length)]

\* One iteration of the scan loop, lines 898-919, at an offset where the
\* length field can be read.  `stop` is the break of line 916.
ScanStep(buf, at, blobs) ==
    LET length      == getUint32(buf, at)
        type        == Decode(Slice(buf, at + 4, at + 8))
        chunkString == Decode(Slice(buf, at + 8, at + 8 + length))
        keyword     == SplitKeyword(chunkString)
        text        == SplitText(chunkString)
        idx         == KeywordIndex(keyword)
    IN  [chunks |-> IF type = TypeTEXT /\ idx # 0 /\ Truthy(text)
                    THEN ChunksSet(blobs, RelevantKeywords[idx].name, text)
                    ELSE blobs,
         stop   |-> type = TypeIEND,
         offset |-> IF type = TypeIEND THEN at ELSE NextOffset(at, length)]

----------------------------------------------------------------------------
(* String searches used by the Automatic1111 grammar *)

Digit     == 48..57
UpperCase == 65..90
LowerCase == 97..122
\* the character codes strings of this development are made of
Codes     == (0..127) \cup {65533}

Lower(c) == IF c \in UpperCase THEN c + 32 ELSE c

\* pat occurs in s at position i (1-based)
MatchesAt(s, pat, i) ==
    /\ i + Len(pat) - 1 <= Len(s)
    /\ \A j \in 1..Len(pat) : s[i + j - 1] = pat[j]

\* the same, ignoring case (the /i flag)
MatchesAtCI(s, pat, i) ==
    /\ i + Len(pat) - 1 <= Len(s)
    /\ \A j \in 1..Len(pat) : Lower(s[i + j - 1]) = Lower(pat[j])

\* least member of a set of positions, 0 if it is empty
FirstIndex(positions) ==
    IF positions = {} THEN 0
    ELSE CHOOSE i \in positions : \A j \in positions : i <= j

\* String.prototype.indexOf(pat, from - 1) + 1: first position >= from, 0 if none
IndexOf(s, pat, from) ==
    FirstIndex({i \in from..Len(s) : MatchesAt(s, pat, i)})

\* first position >= i whose character is outside class (Len(s) + 1 if none)
RECURSIVE SkipClass(_, _, _)
SkipClass(s, i, class) ==
    IF i > Len(s) \/ s[i] \notin class THEN i ELSE SkipClass(s, i + 1, class)

\* /\n[A-Z][a-z]+:/ matches at position i
ParamLineAt(s, i) ==
    LET e == SkipClass(s, i + 2, LowerCase)
    IN  /\ i + 3 <= Len(s)
        /\ s[i] = 10 /\ s[i + 1] \in UpperCase
        /\ e > i + 2 /\ e <= Len(s) /\ s[e] = 58

\* parameters.search(/\n[A-Z][a-z]+:/) + 1, from position i
SearchParamLine(s, i) ==
    FirstIndex({j \in i..Len(s) : ParamLineAt(s, j)})

NoMatch == [matched |-> FALSE]
Match(capture) == [matched |-> TRUE, capture |-> capture]

\* the positions the capture of /<literal>\s*(<class>+)/i can start at when
\* the literal is matched at position i
CaptureStarts(s, literal, class, i) ==
    LET q == i + Len(literal)
        e == SkipClass(s, q, WhiteSpace)
    IN  IF MatchesAtCI(s, literal, i)
        THEN {c \in q..e : c <= Len(s) /\ s[c] \in class}
        ELSE {}

\* s.match(/<literal>\s*(<class>+)/i) from position i: after the literal
\* \s* is greedy and gives characters back until one of class follows
MatchKey(s, literal, class, i) ==
    LET at == FirstIndex({j \in i..Len(s) : CaptureStarts(s, literal, class, j) # {}})
        cands == CaptureStarts(s, literal, class, at)
        c  == CHOOSE c \in cands : \A d \in cands : d <= c
    IN  IF at = 0 THEN NoMatch
        ELSE Match(SubSeq(s, c, SkipClass(s, c, class) - 1))

\* /Size:\s*(\d+)\s*x\s*(\d+)/i at position i
LitSize == <<83, 105, 122, 101, 58>>
SizeAt(s, i) ==
    LET w1 == SkipClass(s, i + Len(LitSize), WhiteSpace)
        w2 == SkipClass(s, w1, Digit)
        x  == SkipClass(s, w2, WhiteSpace)
        h1 == SkipClass(s, x + 1, WhiteSpace)
        h2 == SkipClass(s, h1, Digit)
    IN  IF /\ MatchesAtCI(s, LitSize, i)
           /\ w2 > w1
           /\ x <= Len(s) /\ Lower(s[x]) = 120
           /\ h2 > h1
        THEN [matched |-> TRUE, width |-> SubSeq(s, w1, w2 - 1),
              height |-> SubSeq(s, h1, h2 - 1)]
        ELSE NoMatch

\* s.match(/Size:\s*(\d+)\s*x\s*(\d+)/i) from position i
MatchSize(s, i) ==
    LET at == FirstIndex({j \in i..Len(s) : SizeAt(s, j).matched})
    IN  IF at = 0 THEN NoMatch ELSE SizeAt(s, at)

\* value of a string of decimal digits
RECURSIVE DigitsValue(_)
DigitsValue(d) ==
    IF d = <<>> THEN 0
    ELSE DigitsValue(SubSeq(d, 1, Len(d) - 1)) * 10 + (d[Len(d)] - 48)

RECURSIVE Pow10(_)
Pow10(n) == IF n = 0 THEN 1 ELSE 10 * Pow10(n - 1)

\* a number m / 10^d with a fractional part, in lowest form
RECURSIVE Dec(_, _)
Dec(m, d) ==
    IF d = 0 THEN Num(m)
    ELSE IF m % 10 = 0 THEN Dec(m \div 10, d - 1)
    ELSE [t |-> "number", v |-> m, d |-> d]

NaN == [t |-> "number", v |-> 0, nan |-> TRUE]
IsNaN(x) == "nan" \in DOMAIN x

\* parseFloat of a string of digits and dots: the longest prefix
\* digits [. digits] that holds a digit
ParseFloat(c) ==
    LET i1   == SkipClass(c, 1, Digit)
        int  == SubSeq(c, 1, i1 - 1)
        dot  == i1 <= Len(c) /\ c[i1] = 46
        f2   == IF dot THEN SkipClass(c, i1 + 1, Digit) ELSE i1
        frac == IF dot THEN SubSeq(c, i1 + 1, f2 - 1) ELSE <<>>
    IN  IF int = <<>> /\ frac = <<>> THEN NaN
        ELSE Dec(DigitsValue(int) * Pow10(Len(frac)) + DigitsValue(frac), Len(frac))

\* obj.key = value, keeping the position of an existing key
SetKey(o, key, value) ==
    IF HasKey(o, key)
    THEN [o EXCEPT !.v = [i \in 1..Len(o.v) |->
                            IF o.v[i][1] = key THEN <<key, value>> ELSE o.v[i]]]
    ELSE [o EXCEPT !.v = Append(o.v, <<key, value>>)]

----------------------------------------------------------------------------
(* parseA1111Metadata, lines 1945-2039 *)

LitNegativePrompt == <<10, 78, 101, 103, 97, 116, 105, 118, 101, 32,
                       112, 114, 111, 109, 112, 116, 58>>   \* '\nNegative prompt:'
LitModel   == <<77, 111, 100, 101, 108, 58>>                 \* 'Model:'
LitSteps   == <<83, 116, 101, 112, 115, 58>>                 \* 'Steps:'
LitSampler == <<83, 97, 109, 112, 108, 101, 114, 58>>        \* 'Sampler:'
LitCfg     == <<67, 70, 71, 32, 115, 99, 97, 108, 101, 58>>  \* 'CFG scale:'
LitSeed    == <<83, 101, 101, 100, 58>>                      \* 'Seed:'

NotCommaNewline == Codes \ {44, 10}
DigitOrDot      == Digit \cup {46}

\* variant for comparison: the parameter line is looked for first
A1111PromptParamFirst(parameters) ==
    LET negativePromptIndex == IndexOf(parameters, LitNegativePrompt, 1)
        firstParamIndex     == SearchParamLine(parameters, 1)
    IN  IF firstParamIndex # 0
        THEN Trim(SubSeq(parameters, 1, firstParamIndex - 1))
        ELSE IF negativePromptIndex # 0
             THEN Trim(SubSeq(parameters, 1, negativePromptIndex - 1))
        ELSE Trim(parameters)

\* lines 1960-1972
A1111Prompt(parameters) ==
    LET negativePromptIndex == IndexOf(parameters, LitNegativePrompt, 1)
        firstParamIndex     == SearchParamLine(parameters, 1)
    IN  IF negativePromptIndex # 0
        THEN Trim(SubSeq(parameters, 1, negativePromptIndex - 1))
        ELSE IF firstParamIndex # 0
             THEN Trim(SubSeq(parameters, 1, firstParamIndex - 1))
        ELSE Trim(parameters)

A1111NegativePrompt(parameters) ==
    LET negativePromptIndex    == IndexOf(parameters, LitNegativePrompt, 1)
        negativePromptEndIndex == IndexOf(parameters, <<10>>, negativePromptIndex + 1)
    IN  IF negativePromptIndex = 0 THEN <<>>
        ELSE IF negativePromptEndIndex # 0
             THEN Trim(SubSeq(parameters, negativePromptIndex + 17,
                              negativePromptEndIndex - 1))
        ELSE Trim(SubSeq(parameters, negativePromptIndex + 17, Len(parameters)))

parseA1111Metadata(parameters) ==
    LET modelMatch   == MatchKey(parameters, LitModel, NotCommaNewline, 1)
        stepsMatch   == MatchKey(parameters, LitSteps, Digit, 1)
        samplerMatch == MatchKey(parameters, LitSampler, NotCommaNewline, 1)
        cfgMatch     == MatchKey(parameters, LitCfg, DigitOrDot, 1)
        seedMatch    == MatchKey(parameters, LitSeed, Digit, 1)
        sizeMatch    == MatchSize(parameters, 1)
        cfgScale     == IF cfgMatch.matched THEN ParseFloat(cfgMatch.capture) ELSE NaN
    IN  Obj(<< <<"prompt", Str(A1111Prompt(parameters))>>,
               <<"model", Str(IF modelMatch.matched
                              THEN Trim(modelMatch.capture) ELSE <<>>)>>,
               <<"width", Num(IF sizeMatch.matched
                              THEN DigitsValue(sizeMatch.width) ELSE 0)>>,
               <<"height", Num(IF sizeMatch.matched
                               THEN DigitsValue(sizeMatch.height) ELSE 0)>>,
               <<"steps", Num(IF stepsMatch.matched
                              THEN DigitsValue(stepsMatch.capture) ELSE 0)>>,
               <<"scheduler", Str(IF samplerMatch.matched
                                  THEN Trim(samplerMatch.capture) ELSE <<>>)>>,
               <<"negativePrompt", Str(A1111NegativePrompt(parameters))>>,
               <<"cfgScale", IF IsNaN(cfgScale) THEN Num(0) ELSE cfgScale>>,
               <<"seed", IF seedMatch.matched
                         THEN Num(DigitsValue(seedMatch.capture)) ELSE Undefined>> >>)

----------------------------------------------------------------------------
(* Model and LoRA names of InvokeAI records, lines 62-99, 222-257, 294-382 *)

\* Array.prototype.includes over an array of strings
Includes(list, x) == \E i \in 1..Len(list) : list[i] = x

\* list.push(x) unless the list includes x
PushNew(list, x) == IF Includes(list, x) THEN list ELSE Append(list, x)

RECURSIVE FilterTruthy(_)
FilterTruthy(list) ==
    IF list = <<>> THEN <<>>
    ELSE IF Truthy(Head(list)) THEN <<Head(list)>> \o FilterTruthy(Tail(list))
    ELSE FilterTruthy(Tail(list))

\* value is a string whose trim() is not empty
NonBlankString(x) == Truthy(x) /\ IsString(x) /\ Trim(x.v) # <<>>

\* first item of a list of values that is a non-blank string, trimmed
RECURSIVE FirstName(_)
FirstName(names) ==
    IF names = <<>> THEN Null
    ELSE IF NonBlankString(Head(names)) THEN Str(Trim(Head(names).v))
    ELSE FirstName(Tail(names))

HexOrDash == Digit \cup (97..102) \cup (65..70) \cup {45}
LitModelWord == <<77, 111, 100, 101, 108>>     \* 'Model'

\* `${x}` for a string or a whole number
TemplateString(x) ==
    CASE IsString(x) -> x.v
      [] IsNumber(x) /\ DOMAIN x = {"t", "v"} /\ x.v >= 0 -> ToDecimal(x.v)

extractModelName(modelData) ==
    IF IsString(modelData) THEN Str(Trim(modelData.v))
    ELSE IF Truthy(modelData) /\ TypeOf(modelData) = "object"
    THEN LET name == FirstName(<<Get(modelData, "name"), Get(modelData, "model"),
                                 Get(modelData, "model_name"), Get(modelData, "base_model"),
                                 Get(modelData, "mechanism"), Get(modelData, "type")>>)
             rawKey    == Get(modelData, "key")
             key       == Trim(rawKey.v)
             mechanism == IF Truthy(Get(modelData, "mechanism")) THEN Get(modelData, "mechanism")
                          ELSE IF Truthy(Get(modelData, "type")) THEN Get(modelData, "type")
                          ELSE Str(LitModelWord)
         IN  IF name # Null THEN name
             ELSE IF Truthy(rawKey) /\ IsString(rawKey)
             THEN IF Len(key) > 20 /\ \A i \in 1..Len(key) : key[i] \in HexOrDash
                  THEN Str(TemplateString(mechanism) \o <<32, 40>> \o SubSeq(key, 1, 8)
                           \o <<46, 46, 46, 41>>)
                  ELSE Str(key)
             ELSE Null
    ELSE Null

\* The string values JSON.stringify(value) writes, in output order.  Keys
\* of the records are identifiers; properties holding undefined are left out.
RECURSIVE StringTokens(_)
RECURSIVE StringTokensOfItems(_, _)
StringTokens(x) ==
    CASE x.t = "string" -> <<x.v>>
      [] x.t = "array"  -> StringTokensOfItems(x.v, FALSE)
      [] x.t = "object" -> StringTokensOfItems(x.v, TRUE)
      [] OTHER          -> <<>>
StringTokensOfItems(items, entries) ==
    IF items = <<>> THEN <<>>
    ELSE LET x == IF entries THEN Head(items)[2] ELSE Head(items)
         IN  StringTokens(x) \o StringTokensOfItems(Tail(items), entries)

LowerStr(s) == [i \in 1..Len(s) |-> Lower(s[i])]

EndsWith(s, suffix) ==
    Len(s) >= Len(suffix) /\ SubSeq(s, Len(s) - Len(suffix) + 1, Len(s)) = suffix

ModelFileExtensions ==
    { <<46, 115, 97, 102, 101, 116, 101, 110, 115, 111, 114, 115>>,  \* '.safetensors'
      <<46, 99, 107, 112, 116>>,                                      \* '.ckpt'
      <<46, 112, 116>> }                                              \* '.pt'

\* modelName.split('/').pop() || modelName
RECURSIVE LastIndexOfCode(_, _, _)
LastIndexOfCode(s, c, i) ==
    IF i = 0 THEN 0 ELSE IF s[i] = c THEN i ELSE LastIndexOfCode(s, c, i - 1)

BaseName(modelName) ==
    LET n == LastIndexOfCode(modelName, 47, Len(modelName))
    IN  IF n = Len(modelName) THEN modelName
        ELSE SubSeq(modelName, n + 1, Len(modelName))

\* lines 84-96: quoted strings of the stringified, lower-cased record that
\* end in a model file extension.  Strings of the records hold no quote,
\* backslash or control character, so a match is one whole string value.
RECURSIVE AddModelFiles(_, _)
AddModelFiles(models, tokens) ==
    IF tokens = <<>> THEN models
    ELSE LET c         == LowerStr(Head(tokens))
             modelName == BaseName(Trim(c))
         IN  IF /\ \E ext \in ModelFileExtensions : EndsWith(TrimEnd(c), ext)
                /\ modelName # <<>>
             THEN AddModelFiles(PushNew(models, Str(modelName)), Tail(tokens))
             ELSE AddModelFiles(models, Tail(tokens))

\* lines 66-81: push the readable name of each truthy field
RECURSIVE PushModelNames(_, _)
PushModelNames(models, fields) ==
    IF fields = <<>> THEN models
    ELSE LET modelName == IF Truthy(Head(fields)) THEN extractModelName(Head(fields))
                          ELSE Null
         IN  PushModelNames(IF Truthy(modelName) THEN Append(models, modelName) ELSE models,
                            Tail(fields))

extractModelsFromInvokeAI(metadata) ==
    FilterTruthy(
        AddModelFiles(
            PushModelNames(<<>>, <<Get(metadata, "model"), Get(metadata, "base_model"),
                                   Get(metadata, "model_name")>>),
            StringTokens(metadata)))

LitLoraTag  == <<60, 108, 111, 114, 97, 58>>    \* '<lora:'
LitLycoTag  == <<60, 108, 121, 99, 111, 58>>    \* '<lyco:'
LitLoraWord == <<108, 111, 114, 97, 58>>        \* 'lora:'
LitLycoWord == <<108, 121, 99, 111, 58>>        \* 'lyco:'

WordChar == Digit \cup UpperCase \cup LowerCase \cup {95}

\* loraName = match[1].trim(); push it unless empty or already there
PushLora(loras, capture) ==
    IF Trim(capture) # <<>> THEN PushNew(loras, Str(Trim(capture))) ELSE loras

\* /<tag([^:>]+):[^>]*>/i at position i: the capture and the position of
\* the closing '>'
TagAt(s, tag, i) ==
    LET q == i + Len(tag)
        e == SkipClass(s, q, Codes \ {58, 62})
        g == SkipClass(s, e + 1, Codes \ {62})
    IN  IF /\ MatchesAtCI(s, tag, i)
           /\ e > q /\ e <= Len(s) /\ s[e] = 58
           /\ g <= Len(s)
        THEN [matched |-> TRUE, capture |-> SubSeq(s, q, e - 1), last |-> g]
        ELSE NoMatch

\* exec loop of /<tag([^:>]+):[^>]*>/gi from position i
RECURSIVE LoraTags(_, _, _, _)
LoraTags(loras, s, tag, i) ==
    LET at == FirstIndex({j \in i..Len(s) : TagAt(s, tag, j).matched})
    IN  IF at = 0 THEN loras
        ELSE LoraTags(PushLora(loras, TagAt(s, tag, at).capture), s, tag,
                      TagAt(s, tag, at).last + 1)

\* /\bword([^\s,>]+)/i at position i
WordAt(s, word, i) ==
    LET q == i + Len(word)
        e == SkipClass(s, q, Codes \ (WhiteSpace \cup {44, 62}))
    IN  IF /\ MatchesAtCI(s, word, i)
           /\ (i = 1 \/ s[i - 1] \notin WordChar)
           /\ e > q
        THEN [matched |-> TRUE, capture |-> SubSeq(s, q, e - 1), last |-> e - 1]
        ELSE NoMatch

\* exec loop of /\bword([^\s,>]+)/gi from position i
RECURSIVE LoraWords(_, _, _, _)
LoraWords(loras, s, word, i) ==
    LET at == FirstIndex({j \in i..Len(s) : WordAt(s, word, j).matched})
    IN  IF at = 0 THEN loras
        ELSE LoraWords(PushLora(loras, WordAt(s, word, at).capture), s, word,
                       WordAt(s, word, at).last + 1)

\* Array.prototype.join(' ') of prompt segments: a string segment as it is,
\* an object segment by its prompt (nothing when it has none)
RECURSIVE JoinSegments(_, _)
JoinSegments(items, i) ==
    IF i > Len(items) THEN <<>>
    ELSE LET p    == IF IsString(items[i]) THEN items[i] ELSE Get(items[i], "prompt")
             text == IF p.t \in {"undefined", "null"} THEN <<>> ELSE TemplateString(p)
         IN  IF i = Len(items) THEN text
             ELSE text \o <<32>> \o JoinSegments(items, i + 1)

\* lines 298-302
LoraPromptText(metadata) ==
    LET prompt == Get(metadata, "prompt")
    IN  IF IsString(prompt) THEN prompt.v
        ELSE IF IsArray(prompt) THEN JoinSegments(prompt.v, 1)
        ELSE <<>>

\* lines 324-360: one entry of metadata.loras
LoraEntryName(lora) ==
    IF IsString(lora) THEN Trim(lora.v)
    ELSE IF Truthy(lora) /\ TypeOf(lora) = "object"
    THEN LET model == Get(lora, "model")
             directNames ==
                 <<Get(lora, "name"), Get(lora, "model_name"), Get(lora, "key")>>
                 \o (IF Truthy(model) /\ TypeOf(model) = "object"
                     THEN <<Get(model, "name"), Get(model, "model"),
                            Get(model, "model_name"), Get(model, "key")>>
                     ELSE IF Truthy(model) /\ IsString(model) THEN <<model>>
                     ELSE <<>>)
             name == FirstName(directNames)
         IN  IF name = Null THEN <<>> ELSE name.v
    ELSE <<>>

LitObjectObject == <<91, 111, 98, 106, 101, 99, 116, 32,
                     79, 98, 106, 101, 99, 116, 93>>     \* '[object Object]'

RECURSIVE PushLoraEntries(_, _, _)
PushLoraEntries(loras, items, i) ==
    IF i > Len(items) THEN loras
    ELSE LET loraName == LoraEntryName(items[i])
         IN  PushLoraEntries(
                 IF loraName # <<>> /\ loraName # LitObjectObject
                 THEN PushNew(loras, Str(loraName)) ELSE loras,
                 items, i + 1)

\* lines 364-379: metadata.lora as a string, or as an object naming itself
\* by a string name, model or key
SingleLoraName(lora) ==
    IF IsString(lora) THEN Trim(lora.v)
    ELSE IF TypeOf(lora) # "object" THEN <<>>
    ELSE LET first == IF Truthy(Get(lora, "name")) THEN Get(lora, "name")
                      ELSE IF Truthy(Get(lora, "model")) THEN Get(lora, "model")
                      ELSE Get(lora, "key")
         IN  CASE IsString(first) -> first.v
               [] ~IsString(first) /\ IsString(Get(lora, "key")) /\ Truthy(Get(lora, "key"))
                    -> Get(lora, "key").v

extractLorasFromInvokeAI(metadata) ==
    LET promptText == LoraPromptText(metadata)
        fromPrompt ==
            LoraWords(LoraWords(LoraTags(LoraTags(<<>>, promptText, LitLoraTag, 1),
                                         promptText, LitLycoTag, 1),
                                promptText, LitLoraWord, 1),
                      promptText, LitLycoWord, 1)
        list       == Get(metadata, "loras")
        fromList   == IF Truthy(list) /\ IsArray(list)
                      THEN PushLoraEntries(fromPrompt, list.v, 1) ELSE fromPrompt
        lora       == Get(metadata, "lora")
        single     == IF Truthy(lora) THEN SingleLoraName(lora) ELSE <<>>
    IN  FilterTruthy(IF single # <<>> THEN PushNew(fromList, Str(single)) ELSE fromList)

----------------------------------------------------------------------------
(* parseInvokeAIMetadata, lines 2324-2381 *)

LitInvokeAI == <<73, 110, 118, 111, 107, 101, 65, 73>>     \* 'InvokeAI'

\* the result literal of lines 2325-2339
InvokeAIResultInit ==
    Obj(<< <<"format", Str(LitInvokeAI)>>,
           <<"prompt", Str(<<>>)>>, <<"model", Str(<<>>)>>,
           <<"width", Num(0)>>, <<"height", Num(0)>>, <<"steps", Num(0)>>,
           <<"scheduler", Str(<<>>)>>, <<"negativePrompt", Str(<<>>)>>,
           <<"cfgScale", Num(0)>>, <<"seed", Undefined>>,
           <<"models", Arr(<<>>)>>, <<"loras", Arr(<<>>)>> >>)

\* lines 2348-2351: segments that are blank are dropped, the rest joined
RECURSIVE PromptSegments(_, _)
PromptSegments(items, i) ==
    IF i > Len(items) THEN <<>>
    ELSE LET p    == IF IsString(items[i]) THEN items[i]
                     ELSE IF Truthy(Get(items[i], "prompt")) THEN Get(items[i], "prompt")
                     ELSE Str(<<>>)
             rest == PromptSegments(items, i + 1)
         IN  IF Trim(p.v) = <<>> THEN rest
             ELSE IF rest = <<>> THEN <<p.v>> ELSE <<p.v>> \o rest

RECURSIVE JoinWithSpace(_)
JoinWithSpace(parts) ==
    IF parts = <<>> THEN <<>>
    ELSE IF Len(parts) = 1 THEN parts[1]
    ELSE parts[1] \o <<32>> \o JoinWithSpace(Tail(parts))

\* result.field = metadata.key when metadata.key is truthy
CopyTruthy(result, field, metadata, key) ==
    IF Truthy(Get(metadata, key)) THEN SetKey(result, field, Get(metadata, key))
    ELSE result

parseInvokeAIMetadata(metadata) ==
    IF metadata.t \in {"null", "undefined"} THEN InvokeAIResultInit
    ELSE
    LET positive == Get(metadata, "positive_prompt")
        prompt   == Get(metadata, "prompt")
        negative == Get(metadata, "negative_prompt")
        r1 == IF IsString(positive) THEN SetKey(InvokeAIResultInit, "prompt", positive)
              ELSE IF IsString(prompt) THEN SetKey(InvokeAIResultInit, "prompt", prompt)
              ELSE IF IsArray(prompt)
                   THEN SetKey(InvokeAIResultInit, "prompt",
                               Str(JoinWithSpace(PromptSegments(prompt.v, 1))))
              ELSE InvokeAIResultInit
        r2 == IF IsString(negative) THEN SetKey(r1, "negativePrompt", negative) ELSE r1
        r3 == CopyTruthy(CopyTruthy(CopyTruthy(CopyTruthy(CopyTruthy(CopyTruthy(CopyTruthy(
                  r2, "model", metadata, "model_name"),
                      "width", metadata, "width"),
                      "height", metadata, "height"),
                      "steps", metadata, "steps"),
                      "scheduler", metadata, "scheduler"),
                      "cfgScale", metadata, "cfg_scale"),
                      "seed", metadata, "seed")
        models == extractModelsFromInvokeAI(metadata)
        loras  == extractLorasFromInvokeAI(metadata)
        r4 == SetKey(SetKey(r3, "models", Arr(models)), "loras", Arr(loras))
    IN  IF Len(models) > 0 THEN SetKey(r4, "model", models[1]) ELSE r4

----------------------------------------------------------------------------
(* JSON.parse on the texts the inputs carry *)

TextEmptyObject == <<123, 125>>            \* '{}'
TextNull        == <<110, 117, 108, 108>>  \* 'null'
TextX           == <<120>>                 \* 'x'

Threw == [ok |-> FALSE]
Ok(value) == [ok |-> TRUE, value |-> value]

\* '{}' parses to an empty object and 'null' to null; every other text of
\* the inputs ('x', a cut-off '{', 'n', 'nu', 'nul') is a SyntaxError
JSONParse(text) ==
    IF text = TextEmptyObject THEN Ok(Obj(<<>>))
    ELSE IF text = TextNull THEN Ok(Null)
    ELSE Threw

----------------------------------------------------------------------------
(* parseComfyUIMetadata, lines 1462-1889 *)

\* the result literal of lines 1463-1477
ComfyResultInit ==
    Obj(<< <<"prompt", Str(<<>>)>>, <<"model", Str(<<>>)>>,
           <<"width", Num(0)>>, <<"height", Num(0)>>, <<"steps", Num(0)>>,
           <<"scheduler", Str(<<>>)>>, <<"models", Arr(<<>>)>>, <<"loras", Arr(<<>>)>>,
           <<"board", Str(<<>>)>>, <<"negativePrompt", Str(<<>>)>>,
           <<"cfgScale", Num(0)>>, <<"seed", Undefined>> >>)

\* lines 1486-1505: a string graph is parsed; a parse error ends the call
ComfyGraph(x) == IF IsString(x) THEN JSONParse(x.v) ELSE Ok(x)

\* a || b || ...: the first truthy value, the last one when none is
RECURSIVE OrChain(_)
OrChain(values) ==
    IF Len(values) = 1 \/ Truthy(Head(values)) THEN Head(values)
    ELSE OrChain(Tail(values))

\* inputs.a || inputs.b || ...
Input(inputs, names) == OrChain([i \in 1..Len(names) |-> Get(inputs, names[i])])

\* the values of Object.entries(x)
EntryValues(x) ==
    CASE x.t = "object" -> [i \in 1..Len(x.v) |-> x.v[i][2]]
      [] x.t = "array"  -> x.v
      [] x.t = "string" -> [i \in 1..Len(x.v) |-> Str(<<x.v[i]>>)]
      [] OTHER          -> <<>>

\* parseInt(s, 10) of a string without sign or leading blanks
ParseInt(c) ==
    LET i1 == SkipClass(c, 1, Digit)
    IN  IF i1 = 1 THEN NaN ELSE Num(DigitsValue(SubSeq(c, 1, i1 - 1)))

\* comparisons of a number with an integer; NaN compares false
NumScale(x) == IF "d" \in DOMAIN x THEN Pow10(x.d) ELSE 1
Positive(x) == ~IsNaN(x) /\ x.v > 0
NotNegative(x) == ~IsNaN(x) /\ x.v >= 0
Below(x, n) == ~IsNaN(x) /\ x.v < n * NumScale(x)

\* x.toLowerCase().includes(word)
HasWord(x, word) == IndexOf(LowerStr(x.v), word, 1) # 0

LitSampleWord == <<115, 97, 109, 112, 108, 101>>    \* 'sample'
LitCheckpoint == <<99, 104, 101, 99, 107, 112, 111, 105, 110, 116>>    \* 'checkpoint'
LitModelLower == <<109, 111, 100, 101, 108>>    \* 'model'
LitLoraLower == <<108, 111, 114, 97>>    \* 'lora'
LitClip == <<99, 108, 105, 112>>    \* 'clip'
LitTextWord == <<116, 101, 120, 116>>    \* 'text'
LitEncode == <<101, 110, 99, 111, 100, 101>>    \* 'encode'
LitSeedWord == <<115, 101, 101, 100>>    \* 'seed'
LitLatent == <<108, 97, 116, 101, 110, 116>>    \* 'latent'
LitImage == <<105, 109, 97, 103, 101>>    \* 'image'
LitSizeWord == <<115, 105, 122, 101>>    \* 'size'
LitDimension == <<100, 105, 109, 101, 110, 115, 105, 111, 110>>    \* 'dimension'

\* the words of lines 1597-1602 and 1751-1752 that mark a negative prompt
NegativeWords ==
    { <<98, 108, 117, 114>>,    \* 'blur'
      <<100, 101, 102, 111, 114, 109>>,    \* 'deform'
      <<117, 103, 108, 121>>,    \* 'ugly'
      <<119, 111, 114, 115, 116>>,    \* 'worst'
      <<108, 111, 119, 32, 113, 117, 97, 108, 105, 116, 121>>,    \* 'low quality'
      <<98, 97, 100>> }    \* 'bad'
LitNegative == <<110, 101, 103, 97, 116, 105, 118, 101>>    \* 'negative', line 1603 only

\* node.class_type || node.type || ''
ClassTypeOf(node) ==
    OrChain(<<Get(node, "class_type"), Get(node, "type"), Str(<<>>)>>)

\* node.inputs || {}
InputsOf(node) == OrChain(<<Get(node, "inputs"), Obj(<<>>)>>)

\* classType.toLowerCase() of line 1542 is a TypeError when the class type is
\* truthy and not a string
ClassTypeThrows(node) == ~IsString(ClassTypeOf(node))

\* lines 1566-1576; the names compared literally all contain 'checkpoint'
WithModel(result, classType, inputs) ==
    LET ckptName == Input(inputs, <<"ckpt_name", "checkpoint", "model_name">>)
    IN  IF /\ HasWord(classType, LitCheckpoint) \/ HasWord(classType, LitModelLower)
           /\ Truthy(ckptName) /\ IsString(ckptName)
        THEN SetKey(result, "models", Arr(Append(Get(result, "models").v, ckptName)))
        ELSE result

\* lines 1579-1588; the names compared literally all contain 'lora'
WithLora(result, classType, inputs) ==
    LET loraName == Input(inputs, <<"lora_name", "lora", "name">>)
    IN  IF HasWord(classType, LitLoraLower) /\ Truthy(loraName) /\ IsString(loraName)
        THEN SetKey(result, "loras", Arr(Append(Get(result, "loras").v, loraName)))
        ELSE result

\* lines 1597-1603
IsNegativeText(text) ==
    \/ \E word \in NegativeWords : HasWord(text, word)
    \/ HasWord(text, LitNegative)

\* the text pass had every text-encode node overwrite the field
WithTextLast(result, classType, inputs) ==
    LET text == Input(inputs, <<"text", "prompt", "string">>)
    IN  IF /\ HasWord(classType, LitClip) /\ HasWord(classType, LitTextWord)
           /\ HasWord(classType, LitEncode)
           /\ Truthy(text) /\ IsString(text)
        THEN IF IsNegativeText(text)
             THEN SetKey(result, "negativePrompt", text)
             ELSE SetKey(result, "prompt", text)
        ELSE result

\* lines 1591-1612; 'CLIPTextEncode' and 'CLIPTextEncodeSDXL' contain 'encode'
WithText(result, classType, inputs) ==
    LET text == Input(inputs, <<"text", "prompt", "string">>)
    IN  IF /\ HasWord(classType, LitClip) /\ HasWord(classType, LitTextWord)
           /\ HasWord(classType, LitEncode)
           /\ Truthy(text) /\ IsString(text)
        THEN IF IsNegativeText(text)
             THEN IF ~Truthy(Get(result, "negativePrompt"))
                  THEN SetKey(result, "negativePrompt", text) ELSE result
             ELSE IF ~Truthy(Get(result, "prompt"))
                  THEN SetKey(result, "prompt", text) ELSE result
        ELSE result

\* lines 1643-1654 and 1656-1667: a field of the sampler node, `parse` being
\* parseInt or parseFloat
SamplerNumber(result, field, value, parsed) ==
    IF IsString(value)
    THEN IF Positive(parsed) THEN SetKey(result, field, parsed) ELSE result
    ELSE IF IsNumber(value) /\ Positive(value) THEN SetKey(result, field, value)
    ELSE result

\* lines 1669-1691
SamplerSeed(result, seed) ==
    IF seed = Undefined \/ seed = Null \/ IsArray(seed) THEN result
    ELSE IF IsString(seed)
    THEN IF NotNegative(ParseInt(seed.v)) THEN SetKey(result, "seed", ParseInt(seed.v))
         ELSE result
    ELSE IF IsNumber(seed) /\ NotNegative(seed) THEN SetKey(result, "seed", seed)
    ELSE result

\* lines 1692-1700
SamplerScheduler(result, inputs) ==
    LET samplerName == Input(inputs, <<"sampler_name", "sampler", "sampling_method",
                                       "method">>)
        scheduler   == Get(inputs, "scheduler")
    IN  IF Truthy(samplerName) /\ IsString(samplerName)
        THEN SetKey(result, "scheduler", samplerName)
        ELSE IF Truthy(scheduler) /\ IsString(scheduler)
        THEN SetKey(result, "scheduler", scheduler)
        ELSE result

\* the text of a value that is a string, '' otherwise
TextOf(x) == IF IsString(x) THEN x.v ELSE <<>>

\* lines 1615-1701; the names compared literally all contain 'sample'
WithSampler(result, classType, inputs) ==
    LET steps == Input(inputs, <<"steps", "step_count", "num_steps", "steps_count">>)
        cfg   == Input(inputs, <<"cfg", "cfg_scale", "guidance_scale", "scale",
                                 "guidance", "cfg_value">>)
        seed  == Input(inputs, <<"seed", "noise_seed", "seed_value">>)
    IN  IF HasWord(classType, LitSampleWord)
        THEN SamplerScheduler(
                 SamplerSeed(
                     SamplerNumber(
                         SamplerNumber(result, "steps", steps, ParseInt(TextOf(steps))),
                         "cfgScale", cfg, ParseFloat(TextOf(cfg))),
                     seed),
                 inputs)
        ELSE result

\* key.toLowerCase().includes('seed'), over the keys the graphs use
SeedKeys == {"seed", "noise_seed", "seed_value", "random_seed"}

\* lines 1708-1714: the first entry with a seed key and a positive number
SeedEntries(inputs) ==
    SelectSeq(IF inputs.t = "object" THEN inputs.v ELSE <<>>,
              LAMBDA e : e[1] \in SeedKeys /\ IsNumber(e[2]) /\ Positive(e[2]))

\* lines 1704-1715; 'Seed Everywhere' and 'Random Seed' contain 'seed'
WithSeedNode(result, classType, inputs) ==
    IF /\ HasWord(classType, LitSeedWord)
       /\ ~Truthy(Get(result, "seed"))
       /\ SeedEntries(inputs) # <<>>
    THEN SetKey(result, "seed", SeedEntries(inputs)[1][2])
    ELSE result

\* lines 1731-1738 for one of width and height
SizeField(result, field, value) ==
    IF IsNumber(value) /\ Positive(value) THEN SetKey(result, field, value) ELSE result

\* lines 1716-1739; the names compared literally all contain 'latent' or 'image'
IsSizeNode(classType) ==
    \/ HasWord(classType, LitLatent) \/ HasWord(classType, LitImage)
    \/ HasWord(classType, LitSizeWord) \/ HasWord(classType, LitDimension)

WithSize(result, classType, inputs) ==
    IF IsSizeNode(classType)
    THEN SizeField(
             SizeField(result, "width",
                       Input(inputs, <<"width", "image_width", "size_width", "w", "x">>)),
             "height",
             Input(inputs, <<"height", "image_height", "size_height", "h", "y">>))
    ELSE result

\* lines 1534-1739 for one node whose class type raises no error
NodeFields(result, classType, inputs) ==
    WithSize(
        WithSeedNode(
            WithSampler(
                WithText(
                    WithLora(WithModel(result, classType, inputs), classType, inputs),
                    classType, inputs),
                classType, inputs),
            classType, inputs),
        classType, inputs)

TargetedNode(result, node) ==
    IF ~Truthy(node) \/ TypeOf(node) # "object" THEN result
    ELSE NodeFields(result, ClassTypeOf(node), InputsOf(node))

\* the loop of lines 1531-1740 from the i-th node on; threw: a TypeError
\* ended it
RECURSIVE TargetedPass(_, _, _)
TargetedPass(result, nodes, i) ==
    IF i > Len(nodes) THEN [result |-> result, threw |-> FALSE]
    ELSE IF Truthy(nodes[i]) /\ TypeOf(nodes[i]) = "object" /\ ClassTypeThrows(nodes[i])
    THEN [result |-> result, threw |-> TRUE]
    ELSE TargetedPass(TargetedNode(result, nodes[i]), nodes, i + 1)

\* lines 1751-1752: the words the fallback looks for
IsNegativeFallback(text) == \E word \in NegativeWords : HasWord(text, word)

\* lines 1746-1763 for one node
FallbackText(result, text) ==
    IF ~(Truthy(text) /\ IsString(text)) THEN result
    ELSE IF IsNegativeFallback(text)
    THEN IF ~Truthy(Get(result, "negativePrompt"))
         THEN SetKey(result, "negativePrompt", text) ELSE result
    ELSE IF ~Truthy(Get(result, "prompt"))
         THEN SetKey(result, "prompt", text) ELSE result

RECURSIVE PromptLoop(_, _, _)
PromptLoop(result, nodes, i) ==
    IF i > Len(nodes) THEN result
    ELSE PromptLoop(FallbackText(result, Get(InputsOf(nodes[i]), "text")), nodes, i + 1)

\* lines 1743-1765
PromptFallback(result, nodes) ==
    IF ~Truthy(Get(result, "prompt")) /\ ~Truthy(Get(result, "negativePrompt"))
    THEN PromptLoop(result, nodes, 1)
    ELSE result

\* the limits of lines 1784 and 1795
StepsLimit == 200
CfgLimit == 50

\* the fallbacks had no upper limit
AcceptedAny(value, parsed, limit) ==
    IF IsString(value) THEN Positive(parsed)
    ELSE IsNumber(value) /\ Positive(value)

\* a steps or cfgScale value a fallback accepts: a number, or the parse of a
\* string, that is above 0 and below the limit
Accepted(value, parsed, limit) ==
    IF IsString(value) THEN Positive(parsed) /\ Below(parsed, limit)
    ELSE IsNumber(value) /\ Positive(value) /\ Below(value, limit)

\* lines 1782-1791 and 1793-1802
FallbackNumber(result, field, value, parsed, limit) ==
    IF Accepted(value, parsed, limit) /\ Get(result, field) = Num(0)
    THEN SetKey(result, field, IF IsString(value) THEN parsed ELSE value)
    ELSE result

\* lines 1805-1810: the number the seed is taken for; a reference to another
\* node, ['4', 0], is not a number
SeedValue(possibleSeed) ==
    CASE IsString(possibleSeed) -> ParseInt(possibleSeed.v)
      [] IsNumber(possibleSeed) -> possibleSeed
      [] IsArray(possibleSeed) /\ Len(possibleSeed.v) >= 2 -> NaN

\* variant for comparison: the seed is tested with !result.seed
FallbackSeedFalsy(result, possibleSeed) ==
    IF possibleSeed = Undefined \/ possibleSeed = Null \/ Truthy(Get(result, "seed"))
    THEN result
    ELSE IF NotNegative(SeedValue(possibleSeed))
    THEN SetKey(result, "seed", SeedValue(possibleSeed))
    ELSE result

\* lines 1804-1815
FallbackSeed(result, possibleSeed) ==
    IF possibleSeed = Undefined \/ possibleSeed = Null \/ Get(result, "seed") # Undefined
    THEN result
    ELSE IF NotNegative(SeedValue(possibleSeed))
    THEN SetKey(result, "seed", SeedValue(possibleSeed))
    ELSE result

\* lines 1771-1815 for one node
NumericNode(result, inputs) ==
    LET possibleSteps == Input(inputs, <<"steps", "step_count", "num_steps",
                                         "steps_count", "step", "n_steps">>)
        possibleCfg   == Input(inputs, <<"cfg", "cfg_scale", "guidance_scale", "scale",
                                         "guidance", "cfg_value", "strength">>)
        possibleSeed  == Input(inputs, <<"seed", "noise_seed", "seed_value",
                                         "random_seed">>)
    IN  FallbackSeed(
            FallbackNumber(
                FallbackNumber(result, "steps", possibleSteps,
                               ParseInt(TextOf(possibleSteps)), StepsLimit),
                "cfgScale", possibleCfg, ParseFloat(TextOf(possibleCfg)), CfgLimit),
            possibleSeed)

RECURSIVE NumericLoop(_, _, _)
NumericLoop(result, nodes, i) ==
    IF i > Len(nodes) THEN result
    ELSE NumericLoop(NumericNode(result, InputsOf(nodes[i])), nodes, i + 1)

\* lines 1768-1817
NumericFallback(result, nodes) ==
    IF /\ Get(result, "steps") = Num(0) \/ Get(result, "cfgScale") = Num(0)
       /\ ~Truthy(Get(result, "seed"))
    THEN NumericLoop(result, nodes, 1)
    ELSE result

\* key.includes('step'), and key.includes('cfg') || key.includes('guidance')
\* || key === 'scale' || key === 'strength', over the keys the graphs use
StepKeys == {"steps", "step_count", "num_steps", "steps_count", "step", "n_steps"}
CfgKeys  == {"cfg", "cfg_scale", "guidance_scale", "guidance", "cfg_value",
             "scale", "strength"}

\* lines 1862-1873
FinalSeed(result, entry) ==
    LET parsed == ParseInt(TextOf(entry[2]))
    IN  IF entry[1] \in SeedKeys /\ Get(result, "seed") = Undefined
        THEN IF IsNumber(entry[2]) /\ NotNegative(entry[2])
             THEN SetKey(result, "seed", entry[2])
             ELSE IF IsString(entry[2]) /\ NotNegative(parsed)
             THEN SetKey(result, "seed", parsed)
             ELSE result
        ELSE result

\* lines 1834-1845 and 1848-1859
FinalNumber(result, field, keys, entry, parsed, limit) ==
    IF /\ entry[1] \in keys
       /\ Get(result, field) = Num(0)
       /\ Accepted(entry[2], parsed, limit)
    THEN SetKey(result, field, IF IsString(entry[2]) THEN parsed ELSE entry[2])
    ELSE result

\* lines 1827-1874 for one input
FinalEntry(result, entry) ==
    FinalSeed(
        FinalNumber(
            FinalNumber(result, "steps", StepKeys, entry,
                        ParseInt(TextOf(entry[2])), StepsLimit),
            "cfgScale", CfgKeys, entry, ParseFloat(TextOf(entry[2])), CfgLimit),
        entry)

RECURSIVE FinalInputs(_, _, _)
FinalInputs(result, entries, i) ==
    IF i > Len(entries) THEN result
    ELSE FinalInputs(FinalEntry(result, entries[i]), entries, i + 1)

\* the [key, value] pairs of Object.entries(inputs)
InputEntries(inputs) == IF inputs.t = "object" THEN inputs.v ELSE <<>>

\* lines 1821-1875
RECURSIVE FinalSearch(_, _, _)
FinalSearch(result, nodes, i) ==
    IF i > Len(nodes) THEN result
    ELSE FinalSearch(FinalInputs(result, InputEntries(InputsOf(nodes[i])), 1),
                     nodes, i + 1)

\* lines 1878-1880
PrimaryModel(result) ==
    IF Len(Get(result, "models").v) > 0
    THEN SetKey(result, "model", Get(result, "models").v[1])
    ELSE result

\* the first loop, lines 1522-1527, reads node.class_type of every value: a
\* TypeError on null
FirstLoopThrows(nodes) == \E i \in 1..Len(nodes) : nodes[i] = Null

\* lines 1742-1880 after the targeted pass; an error of that pass has ended
\* the walk in the catch of line 1884
AfterTargeted(passed, nodes) ==
    IF passed.threw THEN passed.result
    ELSE PrimaryModel(
             FinalSearch(
                 NumericFallback(PromptFallback(passed.result, nodes), nodes),
                 nodes, 1))

\* lines 1522-1880 over the values of the chosen graph
ComfyWalk(dataSource, result) ==
    IF FirstLoopThrows(EntryValues(dataSource)) THEN result
    ELSE AfterTargeted(TargetedPass(result, EntryValues(dataSource), 1),
                       EntryValues(dataSource))

parseComfyUIMetadata(metadata) ==
    LET workflow == ComfyGraph(Get(metadata, "workflow"))
        prompt   == ComfyGraph(Get(metadata, "prompt"))
    IN  IF ~workflow.ok \/ ~prompt.ok THEN ComfyResultInit
        ELSE LET dataSource == IF Truthy(prompt.value) THEN prompt.value
                               ELSE workflow.value
             IN  IF ~Truthy(dataSource) THEN ComfyResultInit
                 ELSE ComfyWalk(dataSource, ComfyResultInit)

----------------------------------------------------------------------------
(* parsePNGMetadata: format cascade, lines 922-1025 *)

Returned(value) == [kind |-> "return", value |-> value]
Thrown          == [kind |-> "throw"]

\* try { JSON.parse(text) } catch { text }, lines 936-948 and 1004-1008
ParseOrKeep(text) ==
    IF JSONParse(text.v).ok THEN JSONParse(text.v).value ELSE text

\* metadata.normalizedMetadata = normalized inside a try: a TypeError on
\* null or on a primitive is caught and the value stays as it was
AttachNormalized(metadata, normalized) ==
    IF metadata.t = "object" THEN SetKey(metadata, "normalizedMetadata", normalized)
    ELSE metadata

\* the variant an object is taken for from here on (type guards of ../types)
AsVariant(variant, x) ==
    IF x.t = "object" THEN Md(variant, x.v) ELSE x

ClassifyWorkflow(blobs) ==
    LET workflowData  == ParseOrKeep(ChunksGet(blobs, "workflow"))
        promptData    == IF Truthy(ChunksGet(blobs, "prompt"))
                         THEN ParseOrKeep(ChunksGet(blobs, "prompt")) ELSE Null
        comfyMetadata == Md("ComfyUI", << <<"workflow", workflowData>>,
                                          <<"prompt", promptData>> >>)
    IN  Returned(AttachNormalized(comfyMetadata, parseComfyUIMetadata(comfyMetadata)))

ClassifyInvokeAI(blobs) ==
    LET parsed == JSONParse(ChunksGet(blobs, "invokeai_metadata").v)
    IN  IF ~parsed.ok THEN Thrown
        ELSE Returned(AsVariant("InvokeAI",
                 AttachNormalized(parsed.value, parseInvokeAIMetadata(parsed.value))))

ClassifyParameters(blobs) ==
    LET parameters == ChunksGet(blobs, "parameters")
    IN  Returned(AttachNormalized(
            Md("Automatic1111", << <<"parameters", parameters>> >>),
            parseA1111Metadata(parameters.v)))

ClassifyPrompt(blobs) ==
    LET comfyMetadata == Md("ComfyUI",
                            << <<"prompt", ParseOrKeep(ChunksGet(blobs, "prompt"))>> >>)
    IN  Returned(AttachNormalized(comfyMetadata, parseComfyUIMetadata(comfyMetadata)))

\* a cascade that tries invokeai_metadata before workflow
ClassifyInvokeAIFirst(blobs) ==
    IF Truthy(ChunksGet(blobs, "invokeai_metadata")) THEN ClassifyInvokeAI(blobs)
    ELSE IF Truthy(ChunksGet(blobs, "workflow")) THEN ClassifyWorkflow(blobs)
    ELSE IF Truthy(ChunksGet(blobs, "parameters")) THEN ClassifyParameters(blobs)
    ELSE IF Truthy(ChunksGet(blobs, "prompt")) THEN ClassifyPrompt(blobs)
    ELSE Returned(Null)

ClassifyChunks(blobs) ==
    IF Truthy(ChunksGet(blobs, "workflow")) THEN ClassifyWorkflow(blobs)
    ELSE IF Truthy(ChunksGet(blobs, "invokeai_metadata")) THEN ClassifyInvokeAI(blobs)
    ELSE IF Truthy(ChunksGet(blobs, "parameters")) THEN ClassifyParameters(blobs)
    ELSE IF Truthy(ChunksGet(blobs, "prompt")) THEN ClassifyPrompt(blobs)
    ELSE Returned(Null)

----------------------------------------------------------------------------
(* parseJPEGMetadata, lines 1028-1095 *)

\* const fieldsToCheck, line 1044
FieldsToCheck == <<"userComment", "imageDescription", "description", "xpComment", "xpTitle">>

\* lines 1046-1053: the first field that is a non-blank string, trimmed
RECURSIVE MetadataTextFrom(_, _)
MetadataTextFrom(exifData, i) ==
    IF i > Len(FieldsToCheck) THEN Null
    ELSE IF Truthy(exifData) /\ NonBlankString(Get(exifData, FieldsToCheck[i]))
         THEN Str(Trim(Get(exifData, FieldsToCheck[i]).v))
    ELSE MetadataTextFrom(exifData, i + 1)

\* what the type guard of ../types may do on a parsed value
GuardOutcomes == {"yes", "no", "throws"}

\* `exifOutcome` is what `await parse(buffer, ...)` did; `guard` is what the
\* type guard of line 1062 does on the parsed value
parseJPEGMetadata(exifOutcome, guard) ==
    IF ~exifOutcome.ok THEN Null
    ELSE LET metadataText == MetadataTextFrom(exifOutcome.value, 1)
             parsed       == JSONParse(metadataText.v)
             a1111        == AttachNormalized(
                                 Md("Automatic1111", << <<"parameters", metadataText>> >>),
                                 parseA1111Metadata(metadataText.v))
         IN  IF ~Truthy(metadataText) THEN Null
             ELSE IF ~parsed.ok \/ guard = "throws" THEN a1111
             ELSE IF guard = "yes"
                  THEN AsVariant("InvokeAI",
                           AttachNormalized(parsed.value,
                                            parseInvokeAIMetadata(parsed.value)))
             ELSE AsVariant("Unknown", parsed.value)

----------------------------------------------------------------------------
(* parseImageMetadata, lines 1097-1121 *)

Pending         == [kind |-> "pending"]
Resolved(value) == [kind |-> "resolved", value |-> value]
Rejected        == [kind |-> "rejected"]

PngSignature == <<137, 80, 78, 71, 13, 10, 26, 10>>

\* the four bytes view.getUint32(at) reads, compared bytewise with a constant
\* (0x89504E47 exceeds the integers the model checker computes with)
Uint32Is(b, at, word) == SubSeq(b, at + 1, at + 4) = word

\* lines 1104-1116: "png", "jpeg", "unsupported", or "error" when a
\* DataView read throws inside the try block
Signature(b) ==
    IF ~InRange(b, 0, 4) THEN "error"
    ELSE IF Uint32Is(b, 0, SubSeq(PngSignature, 1, 4))           \* 0x89504E47
    THEN IF ~InRange(b, 4, 4) THEN "error"
         ELSE IF Uint32Is(b, 4, SubSeq(PngSignature, 5, 8))      \* 0x0D0A1A0A
         THEN "png"
         ELSE IF getUint16(b, 0) = 65496 THEN "jpeg" ELSE "unsupported"
    ELSE IF getUint16(b, 0) = 65496                              \* 0xFFD8
    THEN "jpeg"
    ELSE "unsupported"

\* `return parsePNGMetadata(buffer, file)` inside the try block hands the
\* inner promise back without awaiting it: the catch of lines 1117-1120
\* does not see its rejection
SettleReturned(inner) ==
    IF inner.kind = "throw" THEN Rejected ELSE Resolved(inner.value)

----------------------------------------------------------------------------
(* Field extractors, lines 8-59, 260-291, 508-607, 739-868, 2042-2321 *)

\* type guards of ../types
isAutomatic1111Metadata(metadata) ==
    metadata.t = "object" /\ "variant" \in DOMAIN metadata
    /\ metadata.variant = "Automatic1111"

isComfyUIMetadata(metadata) ==
    metadata.t = "object" /\ "variant" \in DOMAIN metadata
    /\ metadata.variant = "ComfyUI"

\* metadata.normalizedMetadata when the key is there and truthy, else undefined
NormalizedOf(metadata) ==
    IF Truthy(Get(metadata, "normalizedMetadata"))
    THEN Get(metadata, "normalizedMetadata") ELSE Undefined

\* metadata.parameters when it is a non-empty string, else undefined
ParametersOf(metadata) ==
    IF Truthy(Get(metadata, "parameters")) /\ IsString(Get(metadata, "parameters"))
    THEN Get(metadata, "parameters") ELSE Undefined

\* typeof x === 'number' (x !== undefined follows)
IsDefinedNumber(x) == x.t = "number"

\* The nodes Object.entries walks after the optional JSON.parse of a graph;
\* a parse error is caught by the try block around the walk.  Graphs of
\* the records hold no nodes.
ComfyEntries(x) ==
    LET graph == ComfyGraph(x)
    IN  CASE ~graph.ok -> <<>>
          [] graph.ok /\ ~Truthy(graph.value) -> <<>>
          [] graph.ok /\ graph.value.t = "object" /\ graph.value.v = <<>> -> <<>>

\* metadata.workflow?.nodes of the raw fallbacks; no record holds a node list
WorkflowNodes(metadata) ==
    LET nodes == Get(Get(metadata, "workflow"), "nodes")
    IN  CASE ~Truthy(nodes) -> <<>>

LitUnknown   == <<85, 110, 107, 110, 111, 119, 110>>      \* 'Unknown'
LitModelHash == <<77, 111, 100, 101, 108, 32, 104, 97, 115, 104, 58>>    \* 'Model hash:'
HexDigit     == Digit \cup (97..102) \cup (65..70)

\* lines 102-124
extractModelsFromAutomatic1111(metadata) ==
    LET params     == Get(metadata, "parameters").v
        modelMatch == MatchKey(params, LitModel, NotCommaNewline, 1)
        hashMatch  == MatchKey(params, LitModelHash, HexDigit, 1)
        models     == IF modelMatch.matched /\ Trim(modelMatch.capture) # <<>>
                      THEN <<Str(Trim(modelMatch.capture))>> ELSE <<>>
    IN  IF hashMatch.matched /\ models = <<>>
        THEN Arr(<<Str(LitModelWord \o <<32, 40>>
                       \o SubSeq(hashMatch.capture, 1, Min(8, Len(hashMatch.capture)))
                       \o <<46, 46, 46, 41>>)>>)
        ELSE Arr(models)

\* lines 127-192
extractModelsFromComfyUI(metadata) ==
    LET workflow == ComfyGraph(Get(metadata, "workflow"))
    IN  CASE ~workflow.ok -> Arr(<<>>)
          [] /\ workflow.ok
             /\ ~Truthy(Get(workflow.value, "nodes"))
             /\ ComfyEntries(Get(metadata, "prompt")) = <<>> -> Arr(<<>>)

\* lines 195-219
extractModelsFromRawMetadata(metadata) ==
    CASE WorkflowNodes(metadata) = <<>> ->
        Arr(PushModelNames(<<>>, <<Get(metadata, "model"), Get(metadata, "model_name"),
                                   Get(metadata, "ckpt_name"), Get(metadata, "checkpoint"),
                                   Get(metadata, "model_hash")>>))

extractModels(metadata) ==
    LET normalized == NormalizedOf(metadata)
        cached     == Get(normalized, "models")
    IN  IF Truthy(cached) /\ IsArray(cached) THEN cached
        ELSE IF isInvokeAIMetadata(metadata) THEN Arr(extractModelsFromInvokeAI(metadata))
        ELSE IF isAutomatic1111Metadata(metadata)
        THEN extractModelsFromAutomatic1111(metadata)
        ELSE IF isComfyUIMetadata(metadata) THEN extractModelsFromComfyUI(metadata)
        ELSE IF Truthy(Get(normalized, "model")) /\ IsString(Get(normalized, "model"))
        THEN Arr(<<Get(normalized, "model")>>)
        ELSE extractModelsFromRawMetadata(metadata)

\* lines 385-407
extractLorasFromAutomatic1111(metadata) ==
    LET params == Get(metadata, "parameters").v
    IN  Arr(LoraTags(LoraTags(<<>>, params, LitLoraTag, 1), params, LitLycoTag, 1))

\* lines 410-474
extractLorasFromComfyUI(metadata) ==
    LET workflow == ComfyGraph(Get(metadata, "workflow"))
    IN  CASE ~workflow.ok -> Arr(<<>>)
          [] /\ workflow.ok
             /\ ~Truthy(Get(workflow.value, "nodes"))
             /\ ComfyEntries(Get(metadata, "prompt")) = <<>> -> Arr(<<>>)

\* lines 483-491 for one field: the non-blank strings of an array as they
\* are, a string trimmed
RawLoraField(x) ==
    IF ~Truthy(x) THEN <<>>
    ELSE IF IsArray(x)
    THEN SelectSeq(x.v, LAMBDA l : IsString(l) /\ Trim(l.v) # <<>>)
    ELSE IF IsString(x) THEN <<Str(Trim(x.v))>>
    ELSE <<>>

\* lines 477-505
extractLorasFromRawMetadata(metadata) ==
    CASE WorkflowNodes(metadata) = <<>> ->
        Arr(RawLoraField(Get(metadata, "loras")) \o RawLoraField(Get(metadata, "lora"))
            \o RawLoraField(Get(metadata, "lora_name")) \o RawLoraField(Get(metadata, "lyco"))
            \o RawLoraField(Get(metadata, "lyco_name")))

extractLoras(metadata) ==
    LET cached == Get(NormalizedOf(metadata), "loras")
    IN  IF Truthy(cached) /\ IsArray(cached) THEN cached
        ELSE IF isInvokeAIMetadata(metadata) THEN Arr(extractLorasFromInvokeAI(metadata))
        ELSE IF isAutomatic1111Metadata(metadata)
        THEN extractLorasFromAutomatic1111(metadata)
        ELSE IF isComfyUIMetadata(metadata) THEN extractLorasFromComfyUI(metadata)
        ELSE extractLorasFromRawMetadata(metadata)

\* lines 540-550
extractSchedulerFromAutomatic1111(metadata) ==
    LET samplerMatch == MatchKey(Get(metadata, "parameters").v, LitSampler,
                                 NotCommaNewline, 1)
    IN  IF samplerMatch.matched THEN Str(Trim(samplerMatch.capture))
        ELSE Str(LitUnknown)

\* lines 553-582
extractSchedulerFromComfyUI(metadata) ==
    CASE ComfyEntries(Get(metadata, "prompt")) = <<>> -> Str(LitUnknown)

\* first of the named fields that is a non-empty string, trimmed
RECURSIVE FirstStringField(_, _)
FirstStringField(metadata, fields) ==
    IF fields = <<>> THEN Undefined
    ELSE IF Truthy(Get(metadata, Head(fields))) /\ IsString(Get(metadata, Head(fields)))
    THEN Str(Trim(Get(metadata, Head(fields)).v))
    ELSE FirstStringField(metadata, Tail(fields))

\* lines 585-607
extractSchedulerFromRawMetadata(metadata) ==
    LET found == FirstStringField(metadata, <<"scheduler", "sampler", "sampler_name",
                                              "sampling_method">>)
    IN  CASE found # Undefined -> found
          [] found = Undefined /\ WorkflowNodes(metadata) = <<>> -> Str(LitUnknown)

extractScheduler(metadata) ==
    LET cached == Get(NormalizedOf(metadata), "scheduler")
    IN  IF Truthy(cached) THEN cached
        ELSE IF isInvokeAIMetadata(metadata)
        THEN IF Truthy(Get(metadata, "scheduler")) THEN Get(metadata, "scheduler")
             ELSE Str(LitUnknown)
        ELSE IF isAutomatic1111Metadata(metadata)
        THEN extractSchedulerFromAutomatic1111(metadata)
        ELSE IF isComfyUIMetadata(metadata) THEN extractSchedulerFromComfyUI(metadata)
        ELSE extractSchedulerFromRawMetadata(metadata)

LitSeparator == <<32, 35, 35, 35, 32>>     \* ' ### '

\* lines 757-778: the InvokeAI branch of extractPrompt; undefined when it
\* returns nothing
InvokeAIPrompt(metadata) ==
    LET positive == Get(metadata, "positive_prompt")
        negative == Get(metadata, "negative_prompt")
        prompt   == Get(metadata, "prompt")
    IN  IF Truthy(positive)
        THEN IF Truthy(negative) THEN Str(positive.v \o LitSeparator \o negative.v)
             ELSE positive
        ELSE IF IsString(prompt) THEN prompt
        ELSE IF IsArray(prompt) THEN Str(JoinWithSpace(PromptSegments(prompt.v, 1)))
        ELSE CASE prompt # Null ->      \* null.prompt is a TypeError
                 IF TypeOf(prompt) = "object" /\ Truthy(Get(prompt, "prompt"))
                 THEN Get(prompt, "prompt")
                 ELSE Undefined

\* lines 797-828: the ComfyUI branch of extractPrompt
ComfyPrompt(metadata) ==
    CASE ComfyEntries(Get(metadata, "prompt")) = <<>> -> Undefined

extractPrompt(metadata) ==
    LET normalized == NormalizedOf(metadata)
        parameters == ParametersOf(metadata)
        a1111Data  == parseA1111Metadata(parameters.v)
        invoke     == IF isInvokeAIMetadata(metadata) THEN InvokeAIPrompt(metadata)
                      ELSE Undefined
        comfy      == IF isComfyUIMetadata(metadata) THEN ComfyPrompt(metadata)
                      ELSE Undefined
    IN  IF Truthy(Get(normalized, "prompt")) THEN Get(normalized, "prompt")
        ELSE IF parameters # Undefined /\ Truthy(Get(a1111Data, "prompt"))
        THEN Get(a1111Data, "prompt")
        ELSE IF invoke # Undefined THEN invoke
        ELSE IF isAutomatic1111Metadata(metadata)
        THEN Str(A1111Prompt(Get(metadata, "parameters").v))
        ELSE IF comfy # Undefined THEN comfy
        ELSE Str(<<>>)

extractNegativePrompt(metadata) ==
    LET cached == Get(NormalizedOf(metadata), "negativePrompt")
    IN  IF Truthy(cached) THEN cached ELSE Undefined

\* the ComfyUI branches of lines 2076-2098, 2158-2180, 2220-2242, 2295-2318
ComfyWorkflowValue(metadata) ==
    CASE ComfyEntries(Get(metadata, "workflow")) = <<>> -> Undefined

\* the branch `if (match) { const n = parse(match[1]); return isNaN(n) ?
\* undefined : n }` of an Automatic1111 record; `none` when nothing matched
NoReturn == [t |-> "none"]
A1111Number(metadata, literal, class) ==
    IF ~isAutomatic1111Metadata(metadata) THEN NoReturn
    ELSE LET m == MatchKey(Get(metadata, "parameters").v, literal, class, 1)
             n == ParseFloat(m.capture)
         IN  IF ~m.matched THEN NoReturn
             ELSE IF IsNaN(n) THEN Undefined ELSE n

\* parseInt(text, 10) of a capture of digits
A1111Integer(metadata, literal) ==
    IF ~isAutomatic1111Metadata(metadata) THEN NoReturn
    ELSE LET m == MatchKey(Get(metadata, "parameters").v, literal, Digit, 1)
         IN  IF ~m.matched THEN NoReturn ELSE Num(DigitsValue(m.capture))

extractCfgScale(metadata) ==
    LET cached     == Get(NormalizedOf(metadata), "cfgScale")
        parameters == ParametersOf(metadata)
        a1111Data  == parseA1111Metadata(parameters.v)
        a1111      == A1111Number(metadata, LitCfg, DigitOrDot)
    IN  IF IsDefinedNumber(cached) THEN cached
        ELSE IF parameters # Undefined /\ Truthy(Get(a1111Data, "cfgScale"))
        THEN Get(a1111Data, "cfgScale")
        ELSE IF isInvokeAIMetadata(metadata) THEN Get(metadata, "cfg_scale")
        ELSE IF a1111 # NoReturn THEN a1111
        ELSE IF isComfyUIMetadata(metadata) THEN ComfyWorkflowValue(metadata)
        ELSE Undefined

extractSteps(metadata) ==
    LET cached     == Get(NormalizedOf(metadata), "steps")
        parameters == ParametersOf(metadata)
        a1111Data  == parseA1111Metadata(parameters.v)
        a1111      == A1111Integer(metadata, LitSteps)
    IN  IF IsDefinedNumber(cached) THEN cached
        ELSE IF parameters # Undefined /\ Truthy(Get(a1111Data, "steps"))
        THEN Get(a1111Data, "steps")
        ELSE IF isInvokeAIMetadata(metadata) THEN Get(metadata, "steps")
        ELSE IF a1111 # NoReturn THEN a1111
        ELSE IF isComfyUIMetadata(metadata) THEN ComfyWorkflowValue(metadata)
        ELSE Undefined

extractSeed(metadata) ==
    LET cached     == Get(NormalizedOf(metadata), "seed")
        parameters == ParametersOf(metadata)
        a1111Data  == parseA1111Metadata(parameters.v)
        a1111      == A1111Integer(metadata, LitSeed)
    IN  IF IsDefinedNumber(cached) THEN cached
        ELSE IF parameters # Undefined /\ Truthy(Get(a1111Data, "seed"))
        THEN Get(a1111Data, "seed")
        ELSE IF isInvokeAIMetadata(metadata) THEN Get(metadata, "seed")
        ELSE IF a1111 # NoReturn THEN a1111
        ELSE IF isComfyUIMetadata(metadata) THEN ComfyWorkflowValue(metadata)
        ELSE Undefined

\* `${width}x${height}`
Dimensions(width, height) ==
    Str(TemplateString(width) \o <<120>> \o TemplateString(height))

\* /Size:\s*([0-9]+x[0-9]+)/i at position i
DimensionsAt(s, i) ==
    LET w1 == SkipClass(s, i + Len(LitSize), WhiteSpace)
        w2 == SkipClass(s, w1, Digit)
        h2 == SkipClass(s, w2 + 1, Digit)
    IN  IF /\ MatchesAtCI(s, LitSize, i)
           /\ w2 > w1
           /\ w2 <= Len(s) /\ Lower(s[w2]) = 120
           /\ h2 > w2 + 1
        THEN Match(SubSeq(s, w1, h2 - 1))
        ELSE NoMatch

\* params.match(/Size:\s*([0-9]+x[0-9]+)/i)
MatchDimensions(s, i) ==
    LET at == FirstIndex({j \in i..Len(s) : DimensionsAt(s, j).matched})
    IN  IF at = 0 THEN NoMatch ELSE DimensionsAt(s, at)

extractDimensions(metadata) ==
    LET normalized == NormalizedOf(metadata)
        parameters == ParametersOf(metadata)
        a1111Data  == parseA1111Metadata(parameters.v)
        sizeMatch  == MatchDimensions(Get(metadata, "parameters").v, 1)
    IN  IF Truthy(Get(normalized, "width")) /\ Truthy(Get(normalized, "height"))
        THEN Dimensions(Get(normalized, "width"), Get(normalized, "height"))
        ELSE IF /\ parameters # Undefined
                /\ Truthy(Get(a1111Data, "width")) /\ Truthy(Get(a1111Data, "height"))
        THEN Dimensions(Get(a1111Data, "width"), Get(a1111Data, "height"))
        ELSE IF /\ isInvokeAIMetadata(metadata)
                /\ Truthy(Get(metadata, "width")) /\ Truthy(Get(metadata, "height"))
        THEN Dimensions(Get(metadata, "width"), Get(metadata, "height"))
        ELSE IF isAutomatic1111Metadata(metadata) /\ sizeMatch.matched
        THEN Str(sizeMatch.capture)
        ELSE IF isComfyUIMetadata(metadata) THEN ComfyWorkflowValue(metadata)
        ELSE Undefined

----------------------------------------------------------------------------
(* Records the extractors are called on *)

\* number of distinct board ids among the records
MaxBoardIds == 3

\* the i-th board id: 'a', 'b', 'c', ...
BoardId(i) == Str(<<96 + i>>)

\* InvokeAI record whose only board information is canvas_v2_metadata.board_id
CanvasRecord(i) ==
    Md("InvokeAI", << <<"canvas_v2_metadata", Obj(<< <<"board_id", BoardId(i)>> >>)>> >>)

\* a second file sharing that board id
CanvasTwin(i) ==
    Md("InvokeAI", << <<"seed", Num(7)>>,
                      <<"canvas_v2_metadata", Obj(<< <<"board_id", BoardId(i)>> >>)>> >>)

\* the id nested as canvas_v2_metadata.board.board_id
NestedRecord(i) ==
    Md("InvokeAI", << <<"canvas_v2_metadata",
                        Obj(<< <<"board", Obj(<< <<"board_id", BoardId(i)>> >>)>> >>)>> >>)

\* the id on a canvas_output node of the record's workflow graph
WorkflowRecord(i) ==
    Md("InvokeAI", << <<"workflow", Obj(<< <<"nodes", Arr(<<
        Obj(<< <<"data", Obj(<< <<"type", Str(<<110, 111, 105, 115, 101>>)>> >>)>> >>),
        Obj(<< <<"data", Obj(<<
            <<"type", Str(<<99, 97, 110, 118, 97, 115, 95, 111, 117, 116, 112, 117, 116>>)>>,
            <<"inputs", Obj(<< <<"board", Obj(<< <<"value",
                Obj(<< <<"board_id", BoardId(i)>> >>)>> >>)>> >>)>> >>)>> >>)
        >>)>> >>)>> >>)

BoardRecords ==
    {CanvasRecord(i) : i \in 1..MaxBoardIds}
    \cup {CanvasTwin(i) : i \in 1..MaxBoardIds}
    \cup {NestedRecord(1), WorkflowRecord(MaxBoardIds)}

\* ' x ' and 'z'
BlankX == <<32, 120, 32>>
LetterZ == <<122>>

OtherRecords ==
    { \* direct board_name wins over canvas_v2_metadata
      Md("InvokeAI", << <<"board_name", Str(BlankX)>>,
                        <<"canvas_v2_metadata", Obj(<< <<"board_id", BoardId(1)>> >>)>> >>),
      \* an empty board_id string and a board object with an id
      Md("InvokeAI", << <<"board_id", Str(<<>>)>>,
                        <<"board", Obj(<< <<"id", Str(LetterZ)>> >>)>> >>),
      \* only a key that contains 'board'
      Md("InvokeAI", << <<"dashboard", Str(BlankX)>> >>),
      \* nothing about boards
      Md("InvokeAI", << <<"seed", Num(7)>> >>),
      \* not InvokeAI
      Md("ComfyUI", << <<"canvas_v2_metadata", Obj(<< <<"board_id", BoardId(1)>> >>)>> >>) }

\* a cache whose every field is populated             'cached', 'no', 'm1', 'l1', 'ddim', 'Shelf'
FullCache ==
    Obj(<< <<"prompt", Str(<<99, 97, 99, 104, 101, 100>>)>>, <<"negativePrompt", Str(<<110, 111>>)>>,
           <<"model", Str(<<109, 49>>)>>, <<"models", Arr(<<Str(<<109, 49>>)>>)>>,
           <<"loras", Arr(<<Str(<<108, 49>>)>>)>>, <<"scheduler", Str(<<100, 100, 105, 109>>)>>,
           <<"board", Str(<<83, 104, 101, 108, 102>>)>>, <<"cfgScale", Num(3)>>, <<"steps", Num(9)>>,
           <<"seed", Num(11)>>, <<"width", Num(8)>>, <<"height", Num(16)>> >>)

\* 'cat\nSteps: 20, Sampler: k, CFG scale: 7.5, Seed: 42, Size: 8x4, Model: m'
SampleParameters ==
    Str(<<99, 97, 116, 10, 83, 116, 101, 112, 115, 58, 32, 50, 48, 44, 32, 83, 97, 109, 112, 108, 101, 114, 58, 32, 107, 44, 32, 67, 70, 71, 32, 115, 99, 97, 108, 101, 58, 32, 55, 46, 53, 44, 32, 83, 101, 101, 100, 58, 32, 52, 50, 44, 32, 83, 105, 122, 101, 58, 32, 56, 120, 52, 44, 32, 77, 111, 100, 101, 108, 58, 32, 109>>)

\* the raw fields of an InvokeAI record
InvokeAIFields ==
    << <<"positive_prompt", Str(<<114, 97, 119, 32, 60, 108, 111, 114, 97, 58, 108, 52, 58, 49, 62>>)>>, <<"negative_prompt", Str(<<98, 97, 100>>)>>,
       <<"model", Obj(<< <<"name", Str(<<115, 100, 120, 108>>)>> >>)>>,
       <<"loras", Arr(<<Obj(<< <<"name", Str(<<108, 50>>)>> >>)>>)>>,
       <<"scheduler", Str(<<101, 117, 108, 101, 114>>)>>, <<"cfg_scale", Num(7)>>, <<"steps", Num(30)>>,
       <<"seed", Num(5)>>, <<"width", Num(64)>>, <<"height", Num(32)>>,
       <<"board_name", Str(<<65, 116, 116, 105, 99>>)>> >>

SampleRecords ==
    { \* InvokeAI: raw fields only, and raw fields next to a full cache
      Md("InvokeAI", InvokeAIFields),
      Md("InvokeAI", Append(InvokeAIFields, <<"normalizedMetadata", FullCache>>)),
      \* InvokeAI: a board id for the resolver next to a full cache
      Md("InvokeAI", << <<"canvas_v2_metadata", Obj(<< <<"board_id", BoardId(1)>> >>)>>,
                        <<"normalizedMetadata", FullCache>> >>),
      \* Automatic1111: parameters only, and parameters next to a full cache
      Md("Automatic1111", << <<"parameters", SampleParameters>> >>),
      Md("Automatic1111", << <<"parameters", SampleParameters>>,
                             <<"normalizedMetadata", FullCache>> >>),
      \* ComfyUI: an empty graph with the cache the parser attaches, and with
      \* a full cache
      Md("ComfyUI", << <<"workflow", Obj(<<>>)>>, <<"prompt", Null>>,
                       <<"normalizedMetadata", ComfyResultInit>> >>),
      Md("ComfyUI", << <<"workflow", Obj(<<>>)>>, <<"normalizedMetadata", FullCache>> >>),
      \* no known variant: candidate field names, and a cache naming one model
      Md("Unknown", << <<"model_name", Str(<<32, 109, 51, 32>>)>>, <<"sampler", Str(<<104, 101, 117, 110>>)>>,
                       <<"lora", Str(<<108, 51>>)>> >>),
      Md("Unknown", << <<"normalizedMetadata", Obj(<< <<"model", Str(<<109, 49>>)>> >>)>> >>) }

\* an InvokeAI record as parsePNGMetadata returns it (lines 970-982), from
\* the text '{"model":"sdxl","model_name":"sdxl"}'
ParsedInvokeAI ==
    LET metadata == Md("InvokeAI", << <<"model", Str(<<115, 100, 120, 108>>)>>,
                                      <<"model_name", Str(<<115, 100, 120, 108>>)>> >>)
    IN  AttachNormalized(metadata, parseInvokeAIMetadata(metadata))

\* an Automatic1111 record as parsePNGMetadata returns it (lines 987-998),
\* from the parameters text 'cat'
ParsedAutomatic1111 ==
    AttachNormalized(Md("Automatic1111", << <<"parameters", Str(<<99, 97, 116>>)>> >>),
                     parseA1111Metadata(<<99, 97, 116>>))

ParsedRecords == {ParsedInvokeAI, ParsedAutomatic1111}

\* records of other formats that carry board fields
ForeignBoardRecords ==
    { Md("ComfyUI", << <<"canvas_v2_metadata", Obj(<< <<"board_id", BoardId(1)>> >>)>> >>),
      Md("Automatic1111", << <<"parameters", Str(<<99, 97, 116>>)>>,
                             <<"board_name", Str(<<65, 116, 116, 105, 99>>)>> >>),
      Md("Unknown", << <<"dashboard", Str(LetterZ)>> >>) }

Records == BoardRecords \cup OtherRecords \cup SampleRecords

\* export { ... }, line 2384
Extractors ==
    {"extractPrompt", "extractNegativePrompt", "extractModels", "extractLoras",
     "extractScheduler", "extractBoard", "extractCfgScale", "extractSteps",
     "extractSeed", "extractDimensions"}

\* InvokeAI records whose board label stands in the field `board`: as an
\* object with a name and as a string, each next to a canvas board id
BoardFieldRecords ==
    { Md("InvokeAI", << <<"board", Obj(<< <<"name", Str(LetterZ)>> >>)>>,
                        <<"canvas_v2_metadata", Obj(<< <<"board_id", BoardId(2)>> >>)>> >>),
      Md("InvokeAI", << <<"board", Str(BlankX)>>,
                        <<"canvas_v2_metadata", Obj(<< <<"board_id", BoardId(2)>> >>)>> >>) }

\* the records the extractors are compared on: the samples, two records as
\* the parser returns them, for extractBoard records of other formats with
\* board fields, two records with board ids of their own, and for
\* extractBoard InvokeAI records with a label in each place it is looked for
FieldRecords ==
    SampleRecords \cup ParsedRecords \cup ForeignBoardRecords
        \cup {CanvasRecord(1), CanvasRecord(2)}
        \cup OtherRecords \cup BoardFieldRecords
        \cup {NestedRecord(1), WorkflowRecord(MaxBoardIds)}

\* every extractor on every sample; extractBoard on every record
Calls ==
    {<<e, metadata>> \in Extractors \X FieldRecords :
        e = "extractBoard" \/ metadata \in SampleRecords \cup ParsedRecords}

\* an extractor that reads no module state, applied to `metadata`
ApplyField(e, metadata) ==
    CASE e = "extractPrompt"         -> extractPrompt(metadata)
      [] e = "extractNegativePrompt" -> extractNegativePrompt(metadata)
      [] e = "extractModels"         -> extractModels(metadata)
      [] e = "extractLoras"          -> extractLoras(metadata)
      [] e = "extractScheduler"      -> extractScheduler(metadata)
      [] e = "extractCfgScale"       -> extractCfgScale(metadata)
      [] e = "extractSteps"          -> extractSteps(metadata)
      [] e = "extractSeed"           -> extractSeed(metadata)
      [] e = "extractDimensions"     -> extractDimensions(metadata)

\* their results on the calls made, computed once
FieldResults ==
    [call \in {c \in Calls : c[1] # "extractBoard"} |-> ApplyField(call[1], call[2])]
        @@ <<>>     \* merged with the empty function: the table is built once

\* the extractor `e` applied to `metadata` in resolver state (cache, counter)
Apply(e, metadata, cache, counter) ==
    IF e = "extractBoard" THEN extractBoard(metadata, cache, counter)
    ELSE Ret(FieldResults[<<e, metadata>>], cache, counter)

----------------------------------------------------------------------------
(* Specification: extractBoard calls on records, in any order *)

\* a call of extractor e with its result and the counter it left
NoCall == [e |-> "none"]
Call(e, metadata, out) ==
    [e |-> e, metadata |-> metadata, res |-> out.ret, counter |-> out.counter]


\* no processDirectory call has been made
NoRuns == <<>>

\* no parseComfyUIMetadata call is being followed
ComfyIdle == [pc |-> "idle"]

\* no file is being parsed
ParseIdle ==
    /\ buffer = <<>>
    /\ exif = Threw
    /\ pc = "idle"
    /\ offset = 0
    /\ chunks = <<>>
    /\ outcome = Pending

Init ==
    /\ boardIdCache = <<>>
    /\ boardCounter = 1
    /\ resolved = {}
    /\ watch = NoCall
    /\ last = NoCall
    /\ ParseIdle
    /\ runs = NoRuns
    /\ comfyCall = ComfyIdle

\* one call of extractBoard; calls on the board records are remembered:
\* the latest in `last`, and in `watch` when `keep` says so
ExtractBoard(metadata, keep) ==
    LET out == extractBoard(metadata, boardIdCache, boardCounter)
    IN  /\ boardIdCache' = out.cache
        /\ boardCounter' = out.counter
        /\ resolved' = resolved \cup out.resolved
        /\ IF metadata \in BoardRecords
           THEN /\ last' = Call("extractBoard", metadata, out)
                /\ watch' = IF keep THEN Call("extractBoard", metadata, out) ELSE watch
           ELSE UNCHANGED <<watch, last>>
        /\ UNCHANGED <<parseVars, dirVars, comfyVars>>

Next ==
    \E metadata \in Records, keep \in BOOLEAN : ExtractBoard(metadata, keep)

Spec == Init /\ [][Next]_vars

----------------------------------------------------------------------------
(* Specification: calls of the ten extractors, in any order *)

\* what a call with outcome `out` leaves: `watch` keeps a call to compare
\* later ones with, `last` is the latest call when it repeats the kept one
Extracted(e, metadata, out) ==
    /\ boardIdCache' = out.cache
    /\ boardCounter' = out.counter
    /\ resolved' = resolved \cup out.resolved
    /\ \E keep \in BOOLEAN :
           watch' = IF keep THEN Call(e, metadata, out) ELSE watch
    /\ last' = IF watch'.e = e /\ watch'.metadata = metadata
               THEN Call(e, metadata, out) ELSE NoCall
    /\ UNCHANGED <<parseVars, dirVars, comfyVars>>

\* one call of an exported extractor
Extract(e, metadata) ==
    Extracted(e, metadata, Apply(e, metadata, boardIdCache, boardCounter))

FieldsNext ==
    \E call \in Calls : Extract(call[1], call[2])

SpecFields == Init /\ [][FieldsNext]_vars

----------------------------------------------------------------------------
(* Files: byte buffers handed to parseImageMetadata *)

\* chunks of a PNG file after the signature
MaxChunks == 3
\* bytes of a further chunk left at the end of a truncated file
MaxStray == 4

\* big-endian 32-bit length field
U32(n) == <<n \div 16777216, (n \div 65536) % 256, (n \div 256) % 256, n % 256>>

\* length, type, data, CRC
Chunk(type, data) == U32(Len(data)) \o type \o data \o <<0, 0, 0, 0>>

TextChunk(keyword, text) == Chunk(TypeTEXT, keyword \o <<0>> \o text)

\* a tEXt chunk whose length field is 0xFFFFFFFF
OversizedChunk == <<255, 255, 255, 255>> \o TypeTEXT \o KwPrompt \o <<0>> \o TextX

ChunkKinds ==
    { TextChunk(KwWorkflow, TextEmptyObject), TextChunk(KwWorkflow, TextX),
      TextChunk(KwWorkflow, <<>>),
      TextChunk(KwInvokeAI, TextEmptyObject), TextChunk(KwInvokeAI, TextX),
      TextChunk(KwInvokeAI, TextNull),
      TextChunk(KwParameters, TextX),
      TextChunk(KwPrompt, TextEmptyObject), TextChunk(KwPrompt, TextX),
      TextChunk(KwTitle, TextX),
      Chunk(TypeIDAT, <<>>),
      OversizedChunk,
      Chunk(TypeIEND, <<>>) }

RECURSIVE Concat(_)
Concat(seqs) == IF seqs = <<>> THEN <<>> ELSE Head(seqs) \o Concat(Tail(seqs))

ChunkLists == UNION {[1..n -> ChunkKinds] : n \in 0..MaxChunks}

PngBuffers ==
    { PngSignature \o Concat(cs) \o SubSeq(Chunk(TypeIEND, <<>>), 1, k) :
        cs \in ChunkLists, k \in 0..MaxStray }

\* empty, shorter than 8 bytes, JPEG, noise
OtherBuffers ==
    { <<>>, <<137>>, <<255, 216>>, <<137, 80, 78, 71>>, SubSeq(PngSignature, 1, 7),
      <<137, 80, 78, 71, 0, 0, 0, 0>>, <<255, 216, 255, 224>>, <<255, 216, 255, 225, 0>>,
      <<7, 200, 13, 0, 99, 255, 1, 2, 3>> }

Buffers == PngBuffers \cup OtherBuffers

\* what exifr's parse does: it rejects, finds nothing, or gives the fields
ExifOutcomes ==
    { Threw, Ok(Undefined),
      Ok(Obj(<< <<"userComment", Str(<<32>>)>>, <<"xpTitle", Str(BlankX)>> >>)),
      Ok(Obj(<< <<"userComment", Num(3)>>, <<"imageDescription", Str(TextEmptyObject)>> >>)),
      Ok(Obj(<< <<"description", Str(TextNull)>> >>)) }

----------------------------------------------------------------------------
(* Specification: one parseImageMetadata call on one file *)

ParseInit ==
    /\ boardIdCache = <<>>
    /\ boardCounter = 1
    /\ resolved = {}
    /\ watch = NoCall
    /\ last = NoCall
    /\ buffer \in Buffers
    /\ exif = Threw
    /\ pc = "start"
    /\ offset = 0
    /\ chunks = <<>>
    /\ outcome = Pending
    /\ runs = NoRuns
    /\ comfyCall = ComfyIdle

\* lines 1098-1116 and the catch of 1117-1120: `readOk` says whether
\* file.arrayBuffer() resolved
ReadSignature(readOk) ==
    /\ pc = "start"
    /\ LET kind == IF readOk THEN Signature(buffer) ELSE "error"
       IN  /\ pc' = CASE kind = "png"  -> "scan"
                      [] kind = "jpeg" -> "jpeg"
                      [] OTHER         -> "done"
           /\ offset' = IF kind = "png" THEN 8 ELSE offset
           /\ outcome' = IF kind \in {"png", "jpeg"} THEN outcome ELSE Resolved(Null)
    /\ UNCHANGED <<buffer, exif, chunks, boardVars, extractVars, dirVars, comfyVars>>

\* one pass of the loop of lines 897-920
ScanChunk ==
    /\ pc = "scan"
    /\ offset < Len(buffer)
    /\ IF ~InRange(buffer, offset, 4)
       THEN \* view.getUint32(offset) raises a RangeError
            /\ outcome' = SettleReturned(Thrown)
            /\ pc' = "done"
            /\ UNCHANGED <<offset, chunks>>
       ELSE LET step == ScanStep(buffer, offset, chunks)
            IN  /\ chunks' = step.chunks
                /\ offset' = step.offset
                /\ pc' = IF step.stop THEN "classify" ELSE "scan"
                /\ UNCHANGED outcome
    /\ UNCHANGED <<buffer, exif, boardVars, extractVars, dirVars, comfyVars>>

\* the loop condition of line 897 fails
ScanEnd ==
    /\ pc = "scan"
    /\ offset >= Len(buffer)
    /\ pc' = "classify"
    /\ UNCHANGED <<buffer, exif, offset, chunks, outcome, boardVars, extractVars,
                   dirVars, comfyVars>>

\* lines 922-1025, and the promise parseImageMetadata returned settles
Classify ==
    /\ pc = "classify"
    /\ outcome' = SettleReturned(ClassifyChunks(chunks))
    /\ pc' = "done"
    /\ UNCHANGED <<buffer, exif, offset, chunks, boardVars, extractVars, dirVars, comfyVars>>

\* lines 1028-1095
ParseJPEG(exifOutcome, guard) ==
    /\ pc = "jpeg"
    /\ exif' = exifOutcome
    /\ outcome' = Resolved(parseJPEGMetadata(exifOutcome, guard))
    /\ pc' = "done"
    /\ UNCHANGED <<buffer, offset, chunks, boardVars, extractVars, dirVars, comfyVars>>

ParseNext ==
    \/ \E readOk \in BOOLEAN : ReadSignature(readOk)
    \/ ScanChunk
    \/ ScanEnd
    \/ Classify
    \/ \E exifOutcome \in ExifOutcomes, guard \in GuardOutcomes :
           ParseJPEG(exifOutcome, guard)

SpecParse == ParseInit /\ [][ParseNext]_vars

----------------------------------------------------------------------------
(* Specification: processDirectory calls in flight together, lines 1270-1459.
   A call runs without interruption from one await to the next: the awaits
   of the loop are getFile (line 1383) and parseImageMetadata (line 1384). *)

\* processDirectory calls in flight together
MaxRuns == 2
\* setProgress is called every 20 files, line 1436
ProgressBatch == 20

\* fileEntry.handle.name of the i-th file: 'f1', 'f2', ...
FileName(i) == Str(<<102, 48 + i>>)

\* an InvokeAI record whose legacy prompt is null: line 775 reads
\* (metadata.prompt as any).prompt of it
NullPromptRecord ==
    Md("InvokeAI", << <<"prompt", Null>>,
                      <<"canvas_v2_metadata", Obj(<< <<"board_id", BoardId(2)>> >>)>> >>)

\* what the files of the directory hold
DirFiles == <<CanvasRecord(1), CanvasTwin(1), CanvasRecord(2), NullPromptRecord>>

\* the call that is made on the large directory
LargeRun == MaxRuns + 1

\* the files of the large directory: two progress batches and one file
LargeFiles == 2 * ProgressBatch + 1

\* the names the files of the large directory share, 'f1', 'f2', 'f3': files
\* of its subdirectories have the same names, with other contents
SharedNames == Len(DirFiles) - 1

\* the files of the large directory that may fail or hold no metadata
FlakyFiles == 3

\* imageFiles of the call on the large directory: the contents are those of
\* DirFiles in turn, the names the shared names in turn
LargeListing ==
    [i \in 1..LargeFiles |->
        LET at == ((i - 1) % Len(DirFiles)) + 1
        IN  [file |-> at, name |-> FileName(((i - 1) % SharedNames) + 1),
             metadata |-> DirFiles[at]]]

\* imageFiles of call r: the directory's files, listed from the r-th on
ImageFiles(r) ==
    IF r = LargeRun THEN LargeListing
    ELSE [i \in 1..Len(DirFiles) |->
             LET at == ((i + r - 2) % Len(DirFiles)) + 1
             IN  [file |-> at, name |-> FileName(at), metadata |-> DirFiles[at]]]

\* what `await parseImageMetadata(file)` can give the loop
ParseResults == {"record", "null", "rejected"}

NoProgress == [current |-> -1, total |-> -1]

\* log: for every file the loop is through with, whether its awaits gave a
\* metadata record
IdleRun ==
    [pc |-> "idle", at |-> 0, indexedImages |-> <<>>, processedCount |-> 0,
     progress |-> NoProgress, uniqueImages |-> <<>>, log |-> <<>>]

\* variant for comparison: the last image of every name
LastByName(images) ==
    SelectSeq([i \in 1..Len(images) |->
                  [image |-> images[i],
                   first |-> \A j \in (i + 1)..Len(images) :
                                 images[j].name # images[i].name]],
              LAMBDA x : x.first)

\* lines 1442-1450: the first image of every name
UniqueByName(images) ==
    SelectSeq([i \in 1..Len(images) |->
                  [image |-> images[i],
                   first |-> \A j \in 1..(i - 1) : images[j].name # images[i].name]],
              LAMBDA x : x.first)

\* lines 1443-1454: uniqueImages as returned
UniqueImages(images) ==
    LET kept == UniqueByName(images)
    IN  [i \in 1..Len(kept) |-> kept[i].image]

\* lines 1435-1439 and, after the last file, 1441-1454
Advance(r, run, images) ==
    LET total == Len(ImageFiles(r))
        count == run.processedCount + 1
        report == count % ProgressBatch = 0 \/ count = total
        final == run.at = total
    IN  [pc            |-> IF final THEN "done" ELSE "getFile",
         at            |-> IF final THEN run.at ELSE run.at + 1,
         indexedImages |-> images,
         processedCount |-> count,
         progress      |-> IF report THEN [current |-> count, total |-> total]
                          ELSE run.progress,
         uniqueImages  |-> IF final THEN UniqueImages(images) ELSE <<>>,
         log           |-> run.log]

\* variant for comparison: no try around the loop body, the error ends the call
AbortRun(r, run) == [run EXCEPT !.pc = "done"]

\* variant for comparison: processedCount++ stands inside the try
SkipUncounted(r, run) ==
    [Advance(r, run, run.indexedImages)
        EXCEPT !.processedCount = run.processedCount, !.progress = run.progress]

\* lines 1431-1433 and the tail of the loop: the file adds no image
SkipFile(r, run) == Advance(r, run, run.indexedImages)

\* the run with its log extended by what the current file gave
Logged(r, run, record) ==
    [run EXCEPT !.log = Append(@, [file |-> ImageFiles(r)[run.at].file,
                                   record |-> record])]

\* lines 757-775: extractPrompt reaches `(metadata.prompt as any).prompt` with
\* a null prompt, a TypeError
PromptThrows(metadata) ==
    /\ ~Truthy(Get(NormalizedOf(metadata), "prompt"))
    /\ ParametersOf(metadata) = Undefined
    /\ isInvokeAIMetadata(metadata)
    /\ ~Truthy(Get(metadata, "positive_prompt"))
    /\ Get(metadata, "prompt") = Null

\* lines 1401-1426: the fields of an IndexedImage that are computed from the
\* metadata alone
ExtractedFields(metadata) ==
    [models |-> extractModels(metadata),
     loras |-> extractLoras(metadata),
     scheduler |-> extractScheduler(metadata),
     prompt |-> extractPrompt(metadata),
     negativePrompt |-> extractNegativePrompt(metadata),
     cfgScale |-> extractCfgScale(metadata),
     steps |-> extractSteps(metadata),
     seed |-> extractSeed(metadata),
     dimensions |-> extractDimensions(metadata)]

\* those fields for every file of the directory, computed once
FieldsOfFile ==
    [at \in 1..Len(DirFiles) |->
        IF PromptThrows(DirFiles[at]) THEN Threw
        ELSE ExtractedFields(DirFiles[at])] @@ <<>>

\* lines 1409-1428: the IndexedImage of a file, given the board it was put on
\* and the fields computed from its metadata
ImageOf(entry, board, fields) ==
    [name |-> entry.name, metadata |-> entry.metadata,
     models |-> fields.models, loras |-> fields.loras,
     scheduler |-> fields.scheduler, board |-> board,
     prompt |-> fields.prompt, negativePrompt |-> fields.negativePrompt,
     cfgScale |-> fields.cfgScale, steps |-> fields.steps,
     seed |-> fields.seed, dimensions |-> fields.dimensions]

IndexedImage(entry, board) == ImageOf(entry, board, FieldsOfFile[entry.file])

DirInit ==
    /\ boardIdCache = <<>>
    /\ boardCounter = 1
    /\ resolved = {}
    /\ watch = NoCall
    /\ last = NoCall
    /\ ParseIdle
    /\ runs = [r \in 1..MaxRuns |-> IdleRun]
    /\ comfyCall = ComfyIdle

\* lines 1278-1381: a call up to its first await of the loop
StartRun(r) ==
    LET total == Len(ImageFiles(r))
        shown == [current |-> 0, total |-> total]
    IN  /\ runs[r].pc = "idle"
        /\ runs' = [runs EXCEPT ![r] =
               IF total = 0
               THEN [IdleRun EXCEPT !.pc = "done", !.progress = shown]
               ELSE [IdleRun EXCEPT !.pc = "getFile", !.at = 1, !.progress = shown]]
        /\ UNCHANGED <<boardVars, extractVars, parseVars, comfyVars>>

\* line 1383 settles: on success the call goes on to await the parse
\* (line 1384), on failure to the catch of line 1431 and the loop's tail
GetFile(r, ok) ==
    /\ runs[r].pc = "getFile"
    /\ runs' = [runs EXCEPT ![r] =
           IF ok THEN [runs[r] EXCEPT !.pc = "parse"]
           ELSE SkipFile(r, Logged(r, runs[r], FALSE))]
    /\ UNCHANGED <<boardVars, extractVars, parseVars, comfyVars>>

\* line 1384 settles and the call runs on to its next await or its return:
\* lines 1385-1439, and 1441-1454 after the last file
Parsed(r, result) ==
    LET run   == Logged(r, runs[r], result = "record")
        entry == ImageFiles(r)[run.at]
        out   == extractBoard(entry.metadata, boardIdCache, boardCounter)
    IN  /\ runs[r].pc = "parse"
        /\ IF result = "record"
           THEN /\ boardIdCache' = out.cache
                /\ boardCounter' = out.counter
                /\ resolved' = resolved \cup out.resolved
                /\ runs' = [runs EXCEPT ![r] =
                       IF FieldsOfFile[entry.file] = Threw
                       THEN SkipFile(r, run)
                       ELSE Advance(r, run,
                                    Append(run.indexedImages,
                                           IndexedImage(entry, out.ret)))]
           ELSE /\ runs' = [runs EXCEPT ![r] = SkipFile(r, run)]
                /\ UNCHANGED boardVars
        /\ UNCHANGED <<extractVars, parseVars, comfyVars>>

DirNext ==
    \E r \in 1..MaxRuns :
        \/ StartRun(r)
        \/ \E ok \in BOOLEAN : GetFile(r, ok)
        \/ \E result \in ParseResults : Parsed(r, result)

SpecDir == DirInit /\ [][DirNext]_vars

----------------------------------------------------------------------------
(* Specification: one processDirectory call, on the directory listed from
   its first file or on the large directory *)

BatchInit ==
    /\ boardIdCache = <<>>
    /\ boardCounter = 1
    /\ resolved = {}
    /\ watch = NoCall
    /\ last = NoCall
    /\ ParseIdle
    /\ runs \in {[r \in {call} |-> IdleRun] : call \in {1, LargeRun}}
    /\ comfyCall = ComfyIdle

\* the file call r is at gives what it should: every file of the small
\* directory may fail, of the large one the first FlakyFiles
Sound(r) == r = LargeRun /\ runs[r].at > FlakyFiles

BatchNext ==
    \E r \in DOMAIN runs :
        \/ StartRun(r)
        \/ \E ok \in BOOLEAN : (Sound(r) => ok) /\ GetFile(r, ok)
        \/ \E result \in ParseResults :
               (Sound(r) => result = "record") /\ Parsed(r, result)

SpecBatch == BatchInit /\ [][BatchNext]_vars

----------------------------------------------------------------------------
(* Specification: one parseComfyUIMetadata call, pass by pass *)

\* nodes of a graph
MaxNodes == 3

\* the keys of a prompt graph
NodeIds == <<"1", "2", "3", "4", "5", "6">>

ComfyNode(classType, inputs) ==
    Obj(<< <<"class_type", Str(classType)>>, <<"inputs", Obj(inputs)>> >>)

NameCheckpointLoader == <<67, 104, 101, 99, 107, 112, 111, 105, 110, 116, 76, 111, 97, 100, 101, 114, 83, 105, 109, 112, 108, 101>>
NameLoraLoader       == <<76, 111, 114, 97, 76, 111, 97, 100, 101, 114>>
NameCLIPTextEncode   == <<67, 76, 73, 80, 84, 101, 120, 116, 69, 110, 99, 111, 100, 101>>
NameKSampler         == <<75, 83, 97, 109, 112, 108, 101, 114>>
NameEmptyLatentImage == <<69, 109, 112, 116, 121, 76, 97, 116, 101, 110, 116, 73, 109, 97, 103, 101>>
NameLatentUpscale    == <<76, 97, 116, 101, 110, 116, 85, 112, 115, 99, 97, 108, 101>>
NameNote             == <<78, 111, 116, 101>>

\* a loader of each kind, two positive and two negative texts ('cat', 'dog',
\* 'bad', 'negative'), a sampler whose seed refers to another node and whose
\* steps and cfg are large, a sampler with the seed '0' alone, two size
\* nodes, a node of no known class with the text 'negative' and numbers
\* inside and outside the fallback limits, null, and a node whose class type
\* is a number
NodeKinds ==
    { ComfyNode(NameCheckpointLoader, << <<"ckpt_name", Str(<<115, 100, 120, 108>>)>> >>),
      ComfyNode(NameLoraLoader, << <<"lora_name", Str(<<99, 97, 116>>)>> >>),
      ComfyNode(NameCLIPTextEncode, << <<"text", Str(<<99, 97, 116>>)>> >>),
      ComfyNode(NameCLIPTextEncode, << <<"text", Str(<<100, 111, 103>>)>> >>),
      ComfyNode(NameCLIPTextEncode, << <<"text", Str(<<98, 97, 100>>)>> >>),
      ComfyNode(NameCLIPTextEncode, << <<"text", Str(LitNegative)>> >>),
      ComfyNode(NameKSampler, << <<"seed", Arr(<<Str(<<52>>), Num(0)>>)>>,
                                 <<"steps", Num(250)>>, <<"cfg", Num(60)>>,
                                 <<"sampler_name", Str(<<101, 117, 108, 101, 114>>)>> >>),
      ComfyNode(NameKSampler, << <<"seed", Str(<<48>>)>> >>),
      ComfyNode(NameEmptyLatentImage, << <<"width", Num(512)>>, <<"height", Num(512)>> >>),
      ComfyNode(NameLatentUpscale, << <<"width", Num(1024)>>, <<"height", Num(768)>> >>),
      ComfyNode(NameNote, << <<"text", Str(LitNegative)>>, <<"steps", Num(300)>>,
                             <<"n_steps", Num(5)>>, <<"cfg", Num(60)>>,
                             <<"strength", Num(2)>>, <<"seed", Num(9)>> >>),
      Null,
      Obj(<< <<"class_type", Num(5)>> >>) }

NodeLists == UNION {[1..n -> NodeKinds] : n \in 0..MaxNodes}

\* the graph as it was executed: node id -> node
PromptGraph(nodes) == Obj([i \in 1..Len(nodes) |-> <<NodeIds[i], nodes[i]>>])

\* the graph as the editor saves it: the nodes in a list
UiWorkflow(nodes) ==
    Obj(<< <<"last_node_id", Num(Len(nodes))>>, <<"nodes", Arr(nodes)>> >>)

\* records with both graphs, and records with the workflow alone
ComfyRecords ==
    { Md("ComfyUI", << <<"workflow", UiWorkflow(nodes)>>,
                       <<"prompt", IF both THEN PromptGraph(nodes) ELSE Null>> >>) :
        nodes \in NodeLists, both \in BOOLEAN }

ComfyCall(metadata) ==
    [pc |-> "start", metadata |-> metadata, nodes |-> <<>>, at |-> 0,
     result |-> ComfyResultInit]

ComfyInit ==
    /\ boardIdCache = <<>>
    /\ boardCounter = 1
    /\ resolved = {}
    /\ watch = NoCall
    /\ last = NoCall
    /\ ParseIdle
    /\ runs = NoRuns
    /\ comfyCall \in {ComfyCall(metadata) : metadata \in ComfyRecords}

\* lines 1480-1512: the graph that is walked; none when a graph text does
\* not parse or no graph is there
DataSource(workflow, prompt) ==
    IF ~workflow.ok \/ ~prompt.ok THEN Threw
    ELSE IF ~Truthy(OrChain(<<prompt.value, workflow.value>>)) THEN Threw
    ELSE Ok(OrChain(<<prompt.value, workflow.value>>))

\* where the call goes after the first loop, lines 1522-1527
Started(call, dataSource) ==
    IF ~dataSource.ok THEN [call EXCEPT !.pc = "done"]
    ELSE IF FirstLoopThrows(EntryValues(dataSource.value))
    THEN [call EXCEPT !.pc = "done", !.nodes = EntryValues(dataSource.value)]
    ELSE [call EXCEPT !.pc = IF EntryValues(dataSource.value) = <<>>
                             THEN "promptFallback" ELSE "nodes",
                      !.at = 1,
                      !.nodes = EntryValues(dataSource.value)]

\* lines 1479-1527
ComfyStart ==
    /\ comfyCall.pc = "start"
    /\ comfyCall' = Started(comfyCall, DataSource(ComfyGraph(Get(comfyCall.metadata, "workflow")),
                                          ComfyGraph(Get(comfyCall.metadata, "prompt"))))
    /\ UNCHANGED <<boardVars, extractVars, parseVars, dirVars>>

\* one pass of the loop of lines 1531-1740
ComfyNodePass ==
    /\ comfyCall.pc = "nodes"
    /\ LET node == comfyCall.nodes[comfyCall.at]
       IN  comfyCall' =
               IF Truthy(node) /\ TypeOf(node) = "object" /\ ClassTypeThrows(node)
               THEN [comfyCall EXCEPT !.pc = "done"]
               ELSE [comfyCall EXCEPT !.result = TargetedNode(@, node),
                                  !.at = @ + 1,
                                  !.pc = IF comfyCall.at = Len(comfyCall.nodes)
                                         THEN "promptFallback" ELSE "nodes"]
    /\ UNCHANGED <<boardVars, extractVars, parseVars, dirVars>>

\* lines 1743-1765
ComfyPromptFallback ==
    /\ comfyCall.pc = "promptFallback"
    /\ comfyCall' = [comfyCall EXCEPT !.result = PromptFallback(@, comfyCall.nodes),
                              !.pc = "numericFallback"]
    /\ UNCHANGED <<boardVars, extractVars, parseVars, dirVars>>

\* lines 1768-1817
ComfyNumericFallback ==
    /\ comfyCall.pc = "numericFallback"
    /\ comfyCall' = [comfyCall EXCEPT !.result = NumericFallback(@, comfyCall.nodes),
                              !.pc = "finalSearch"]
    /\ UNCHANGED <<boardVars, extractVars, parseVars, dirVars>>

\* lines 1821-1875
ComfyFinalSearch ==
    /\ comfyCall.pc = "finalSearch"
    /\ comfyCall' = [comfyCall EXCEPT !.result = FinalSearch(@, comfyCall.nodes, 1),
                              !.pc = "finish"]
    /\ UNCHANGED <<boardVars, extractVars, parseVars, dirVars>>

\* lines 1878-1888
ComfyFinish ==
    /\ comfyCall.pc = "finish"
    /\ comfyCall' = [comfyCall EXCEPT !.result = PrimaryModel(@), !.pc = "done"]
    /\ UNCHANGED <<boardVars, extractVars, parseVars, dirVars>>

ComfyNext ==
    \/ ComfyStart
    \/ ComfyNodePass
    \/ ComfyPromptFallback
    \/ ComfyNumericFallback
    \/ ComfyFinalSearch
    \/ ComfyFinish

SpecComfy == ComfyInit /\ [][ComfyNext]_vars

----------------------------------------------------------------------------
(* Specification: one parseA1111Metadata call on one parameters text *)

\* pieces a parameters text is made of
MaxSegments == 4

\* 'cat', ' bad ', a newline, the marker with and without its newline, a
\* parameter line whose key is a capitalized word, and one whose key is not
Segments ==
    { <<99, 97, 116>>,
      <<32, 98, 97, 100, 32>>,
      <<10>>,
      LitNegativePrompt,
      Tail(LitNegativePrompt),
      <<10>> \o LitSteps \o <<32, 50, 48>>,
      <<10>> \o LitCfg \o <<32, 55>> }

ParameterTexts ==
    { Concat(segments) : segments \in UNION {[1..n -> Segments] : n \in 0..MaxSegments} }

A1111Init ==
    /\ boardIdCache = <<>>
    /\ boardCounter = 1
    /\ resolved = {}
    /\ watch \in {[e |-> "parseA1111Metadata", parameters |-> parameters] :
                     parameters \in ParameterTexts}
    /\ last = NoCall
    /\ ParseIdle
    /\ runs = NoRuns
    /\ comfyCall = ComfyIdle

\* the call returns
ParseParameters ==
    /\ watch.e = "parseA1111Metadata"
    /\ last = NoCall
    /\ last' = [e |-> watch.e, parameters |-> watch.parameters,
                res |-> parseA1111Metadata(watch.parameters)]
    /\ UNCHANGED <<boardVars, watch, parseVars, dirVars, comfyVars>>

A1111Next == ParseParameters

SpecA1111 == A1111Init /\ [][A1111Next]_vars

----------------------------------------------------------------------------
(* Properties of parseImageMetadata and parsePNGMetadata, under SpecParse *)

\* x is a metadata record of the given variant
IsRecordOf(x, variant) ==
    x.t = "object" /\ "variant" \in DOMAIN x /\ x.variant = variant

IsRecord(x) == x.t = "object" /\ "variant" \in DOMAIN x

\* the scan recorded a blob under `name`
Recorded(name) == name \in DOMAIN chunks

\* C1: for every byte buffer, parseImageMetadata completes with null or a
\* metadata record; the promise it returns never rejects.
C1_Totality ==
    pc = "done" =>
        /\ outcome.kind = "resolved"
        /\ (outcome.value = Null \/ IsRecord(outcome.value))

\* C2: when classification starts with a `workflow` blob recorded, the file
\* is returned as a ComfyUI record whose workflow field is that blob (parsed
\* when it is JSON, as text otherwise), whatever else was recorded.
C2_WorkflowPriority ==
    [][ (pc = "classify" /\ Recorded("workflow")) =>
            /\ outcome'.kind = "resolved"
            /\ IsRecordOf(outcome'.value, "ComfyUI")
            /\ Get(outcome'.value, "workflow") =
                   IF chunks["workflow"].v = TextEmptyObject
                   THEN Obj(<<>>) ELSE chunks["workflow"] ]_vars

\* C2 witness: a file with workflow, malformed invokeai_metadata and
\* parameters blobs came out as a ComfyUI record
C2_Witness ==
    /\ pc = "done"
    /\ Recorded("workflow")
    /\ Recorded("invokeai_metadata") /\ chunks["invokeai_metadata"].v = TextX
    /\ Recorded("parameters")
    /\ outcome.kind = "resolved"
    /\ IsRecordOf(outcome.value, "ComfyUI")

\* C3: classification is a first-match cascade: without workflow, a recorded
\* invokeai_metadata gives an InvokeAI record; else parameters gives an
\* Automatic1111 record holding the raw text; else prompt gives a prompt-only
\* ComfyUI record; with nothing recorded the result is null.
C3_Cascade ==
    [][ (pc = "classify" /\ ~Recorded("workflow")) =>
            /\ outcome'.kind = "resolved"
            /\ IF Recorded("invokeai_metadata")
               THEN IsRecordOf(outcome'.value, "InvokeAI")
               ELSE IF Recorded("parameters")
               THEN /\ IsRecordOf(outcome'.value, "Automatic1111")
                    /\ Get(outcome'.value, "parameters") = chunks["parameters"]
               ELSE IF Recorded("prompt")
               THEN /\ IsRecordOf(outcome'.value, "ComfyUI")
                    /\ ~HasKey(outcome'.value, "workflow")
               ELSE outcome'.value = Null ]_vars

\* C4: with no workflow, an invokeai_metadata blob that is not valid JSON and
\* a parameters blob, the result is the Automatic1111 record built from the
\* parameters blob.
C4_FallThrough ==
    [][ (/\ pc = "classify"
         /\ ~Recorded("workflow")
         /\ Recorded("invokeai_metadata")
         /\ ~JSONParse(chunks["invokeai_metadata"].v).ok
         /\ Recorded("parameters")) =>
            /\ outcome'.kind = "resolved"
            /\ IsRecordOf(outcome'.value, "Automatic1111")
            /\ Get(outcome'.value, "parameters") = chunks["parameters"] ]_vars

----------------------------------------------------------------------------
(* Properties of the board resolver and extractBoard, under Spec *)

\* the board id a record carries as canvas_v2_metadata.board_id
CanvasIdOf(metadata) == Get(Get(metadata, "canvas_v2_metadata"), "board_id")

\* records whose only board information is canvas_v2_metadata.board_id
CanvasRecords ==
    {CanvasRecord(i) : i \in 1..MaxBoardIds} \cup {CanvasTwin(i) : i \in 1..MaxBoardIds}

\* c is a remembered extractBoard call on such a record
IsCanvasCall(c) ==
    c # NoCall /\ c.e = "extractBoard" /\ c.metadata \in CanvasRecords

\* C5: over the lifetime of the module, the resolver gives one board id one
\* name, always the same, and gives different board ids different names.
C5_BoardStability ==
    \A p, q \in resolved : (p[1] = q[1]) <=> (p[2] = q[2])

\* C5 witness: every board id has been resolved, and one of them again by a
\* second record after the others were first seen, with the same name
C5_Witness ==
    /\ Cardinality(resolved) = MaxBoardIds
    /\ IsCanvasCall(watch) /\ IsCanvasCall(last)
    /\ watch.metadata # last.metadata
    /\ CanvasIdOf(watch.metadata) = CanvasIdOf(last.metadata)
    /\ last.counter > watch.counter
    /\ last.res = watch.res

\* the images the calls have indexed so far
AllImages ==
    UNION {{runs[r].indexedImages[i] : i \in 1..Len(runs[r].indexedImages)} :
              r \in DOMAIN runs}

\* call r is between its start and its return
InFlight(r) == runs[r].pc \in {"getFile", "parse"}

\* C6: with processDirectory calls in flight together and interleaving at
\* their awaits, images carrying the same board id are on the same board
\* whichever call indexed them, images carrying different ids are on
\* different boards, and no name was given to two ids.
C6_Serialized ==
    /\ \A a, b \in AllImages :
           (CanvasIdOf(a.metadata) = CanvasIdOf(b.metadata)) <=> (a.board = b.board)
    /\ \A p, q \in resolved : (p[2] = q[2]) => (p[1] = q[1])

\* C6 witness: two calls, both still in flight, have each indexed a file
\* with the same board id
C6_Witness ==
    \E r1, r2 \in DOMAIN runs :
        /\ r1 # r2 /\ InFlight(r1) /\ InFlight(r2)
        /\ \E i \in 1..Len(runs[r1].indexedImages), j \in 1..Len(runs[r2].indexedImages) :
               /\ CanvasIdOf(runs[r1].indexedImages[i].metadata)
                      = CanvasIdOf(runs[r2].indexedImages[j].metadata)
               /\ runs[r1].indexedImages[i].board = runs[r2].indexedImages[j].board

\* C7: the cache starts empty with the counter at 1; afterwards no entry is
\* removed or given another name, and the counter never decreases.
C7_Lifecycle ==
    /\ (boardIdCache = <<>> /\ boardCounter = 1)
    /\ [][ /\ \A k \in DOMAIN boardIdCache :
                k \in DOMAIN boardIdCache' /\ boardIdCache'[k] = boardIdCache[k]
           /\ boardCounter' >= boardCounter ]_vars

\* C7 witness: the cache holds an entry for every board id, and the counter
\* has advanced once for each
C7_Witness ==
    /\ Cardinality(DOMAIN boardIdCache) = MaxBoardIds
    /\ boardCounter = MaxBoardIds + 1

\* C8: for records with no direct board field, extractBoard returns the
\* resolver's name for canvas_v2_metadata.board_id: two such records get the
\* same board exactly when they carry the same id.
C8_CanvasLabel ==
    (IsCanvasCall(watch) /\ IsCanvasCall(last)) =>
        /\ CanvasIdOf(last.metadata) \in DOMAIN boardIdCache
        /\ CanvasIdOf(watch.metadata) \in DOMAIN boardIdCache
        /\ last.res = boardIdCache[CanvasIdOf(last.metadata)]
        /\ watch.res = boardIdCache[CanvasIdOf(watch.metadata)]
        /\ (CanvasIdOf(watch.metadata) = CanvasIdOf(last.metadata))
               <=> (watch.res = last.res)

\* C8 witness: two records carrying different ids were given different boards
C8_Witness ==
    /\ IsCanvasCall(watch) /\ IsCanvasCall(last)
    /\ CanvasIdOf(watch.metadata) # CanvasIdOf(last.metadata)
    /\ watch.res # last.res
    /\ last.res = boardIdCache[CanvasIdOf(last.metadata)]

----------------------------------------------------------------------------
(* Properties of the field extractors, under SpecFields *)

\* C9: an extractor called again on the same record returns what it returned
\* before, whatever calls on other records came in between, for records with
\* and without a normalizedMetadata cache.
C9_Idempotent ==
    (watch # NoCall /\ last # NoCall
        /\ last.e = watch.e /\ last.metadata = watch.metadata) =>
            last.res = watch.res

\* C9 witness: extractBoard was called again on a record after the resolver
\* had named another record's board in between, and returned the same board
C9_Witness ==
    /\ watch # NoCall /\ last # NoCall
    /\ watch.e = "extractBoard" /\ last.e = "extractBoard"
    /\ last.metadata = watch.metadata
    /\ CanvasIdOf(watch.metadata) \in DOMAIN boardIdCache
    /\ last.counter > watch.counter
    /\ last.res = watch.res

\* the cache field(s) an extractor stands for hold a value
Populated(e, normalized) ==
    /\ Truthy(normalized)
    /\ CASE e = "extractPrompt"         -> Truthy(Get(normalized, "prompt"))
         [] e = "extractNegativePrompt" -> Truthy(Get(normalized, "negativePrompt"))
         [] e = "extractModels"         -> IsArray(Get(normalized, "models"))
         [] e = "extractLoras"          -> IsArray(Get(normalized, "loras"))
         [] e = "extractScheduler"      -> Truthy(Get(normalized, "scheduler"))
         [] e = "extractBoard"          -> Truthy(Get(normalized, "board"))
         [] e = "extractCfgScale"       -> IsNumber(Get(normalized, "cfgScale"))
         [] e = "extractSteps"          -> IsNumber(Get(normalized, "steps"))
         [] e = "extractSeed"           -> IsNumber(Get(normalized, "seed"))
         [] e = "extractDimensions"     ->
                Truthy(Get(normalized, "width")) /\ Truthy(Get(normalized, "height"))

\* the value the cache holds for an extractor
CachedValue(e, normalized) ==
    CASE e = "extractPrompt"         -> Get(normalized, "prompt")
      [] e = "extractNegativePrompt" -> Get(normalized, "negativePrompt")
      [] e = "extractModels"         -> Get(normalized, "models")
      [] e = "extractLoras"          -> Get(normalized, "loras")
      [] e = "extractScheduler"      -> Get(normalized, "scheduler")
      [] e = "extractBoard"          -> Get(normalized, "board")
      [] e = "extractCfgScale"       -> Get(normalized, "cfgScale")
      [] e = "extractSteps"          -> Get(normalized, "steps")
      [] e = "extractSeed"           -> Get(normalized, "seed")
      [] e = "extractDimensions"     ->
             Dimensions(Get(normalized, "width"), Get(normalized, "height"))

\* C10: when the record's normalizedMetadata cache holds a value for the
\* field, each of the ten extractors returns the cached value.
C10_CacheAuthoritative ==
    (watch # NoCall /\ Populated(watch.e, Get(watch.metadata, "normalizedMetadata"))) =>
        watch.res = CachedValue(watch.e, Get(watch.metadata, "normalizedMetadata"))

\* a list of strings holds no string twice
NoRepeats(list) ==
    \A i, j \in 1..Len(list.v) : list.v[i] = list.v[j] => i = j

\* C11: for a record as the parser returns it, the lists extractModels and
\* extractLoras return hold no string twice.
C11_NoDuplicates ==
    (/\ watch # NoCall
     /\ watch.e \in {"extractModels", "extractLoras"}
     /\ watch.metadata \in ParsedRecords) => NoRepeats(watch.res)

\* C12: for a record parsed from a source without steps, CFG scale or seed,
\* extractSteps, extractCfgScale and extractSeed return undefined.
C12_AbsentIsUndefined ==
    (/\ watch # NoCall
     /\ watch.e \in {"extractSteps", "extractCfgScale", "extractSeed"}
     /\ watch.metadata = ParsedAutomatic1111) => watch.res = Undefined

\* C13: on a record that is not InvokeAI metadata extractBoard returns
\* 'Uncategorized', whatever board fields or cache the record carries.
C13_OtherFormats ==
    (/\ watch # NoCall
     /\ watch.e = "extractBoard"
     /\ watch.metadata.variant # "InvokeAI") => watch.res = Str(Uncategorized)

\* C13 witness: after an earlier extractBoard call, extractBoard was called on
\* an Automatic1111 record with a board_name and returned 'Uncategorized'
C13_Witness ==
    /\ watch # NoCall /\ last # NoCall
    /\ watch.e = "extractBoard" /\ last.e = "extractBoard"
    /\ watch.metadata.variant = "Automatic1111"
    /\ Truthy(Get(watch.metadata, "board_name"))
    /\ watch.res = Str(Uncategorized)

\* the names of the files of call r that were read, gave a record and whose
\* fields were extracted, in the order of the listing
Healthy(r) ==
    LET kept == SelectSeq(runs[r].log,
                          LAMBDA l : l.record /\ ~PromptThrows(DirFiles[l.file]))
    IN  [i \in 1..Len(kept) |-> FileName(kept[i].file)]

\* C14: a file whose read, parse or field extraction fails is skipped and
\* the call goes on: the loop comes to every file of the listing, and the
\* list returned holds exactly the other files that have metadata.
C14_BatchIsolation ==
    \A r \in 1..MaxRuns :
        LET run == runs[r]
        IN  /\ \A i \in 1..Len(run.log) : run.log[i].file = ImageFiles(r)[i].file
            /\ [i \in 1..Len(run.indexedImages) |-> run.indexedImages[i].name] = Healthy(r)
            /\ run.pc = "done" =>
                   /\ Len(run.log) = Len(ImageFiles(r))
                   /\ [i \in 1..Len(run.uniqueImages) |-> run.uniqueImages[i].name]
                          = Healthy(r)

\* C14 witness: a call has returned one image although two files gave no
\* record and the fields of a third threw
C14_Witness ==
    \E r \in 1..MaxRuns :
        /\ runs[r].pc = "done"
        /\ Len(runs[r].uniqueImages) = 1
        /\ \E i, j \in 1..Len(runs[r].log) :
               /\ i # j
               /\ ~runs[r].log[i].record
               /\ ~runs[r].log[j].record
        /\ \E i \in 1..Len(runs[r].log) :
               /\ runs[r].log[i].record
               /\ PromptThrows(DirFiles[runs[r].log[i].file])

\* the buffer ends in the middle of a chunk: after the chunk at `at` (whose
\* header can be read when `at` is not the end) the scan would need bytes
\* the buffer does not have
RECURSIVE EndsInChunk(_, _)
EndsInChunk(buf, at) ==
    IF at >= Len(buf) THEN at > Len(buf)
    ELSE IF ~InRange(buf, at, 8) THEN TRUE
    ELSE IF Slice(buf, at + 4, at + 8) = TypeIEND THEN FALSE
    ELSE EndsInChunk(buf, NextOffset(at, getUint32(buf, at)))

\* C15: on a buffer with a PNG signature that ends in the middle of a chunk
\* (a declared length past the end, or less than a chunk header left), the
\* scan raises no error and goes on to classification.
C15_GracefulTruncation ==
    [][ (pc = "scan" /\ EndsInChunk(buffer, 8)) => pc' \in {"scan", "classify"} ]_vars

\* C16: every iteration of the scan that stays in the loop starts below the
\* buffer's length and ends at a strictly greater offset, whatever length the
\* chunk declares; the loop therefore makes fewer passes than the buffer has
\* bytes.
C16_ScanTerminates ==
    [][ (pc = "scan" /\ pc' = "scan") =>
            (offset < Len(buffer) /\ offset' > offset) ]_vars

\* C16 witness: the scan has left the loop of a buffer that holds a chunk of
\* declared length 0 and a chunk of declared length 0xFFFFFFFF
C16_Witness ==
    /\ pc = "classify"
    /\ offset > PastAnyBuffer
    /\ \E i \in 8..(Len(buffer) - 8) :
           /\ SubSeq(buffer, i + 1, i + 8) = U32(0) \o TypeIDAT
           /\ i < Len(buffer) - 20

\* C17: when an EXIF text field was matched, a text that parses as JSON is
\* returned as the parsed object (and not as an Automatic1111 record), and
\* any other text as the Automatic1111 record of that text; null is not
\* returned in either case, the Automatic1111 parse raising no error.
C17_JpegClassification ==
    [][ pc = "jpeg" =>
          LET metadataText == MetadataTextFrom(exif'.value, 1)
              parsed       == JSONParse(metadataText.v)
              result       == outcome'.value
          IN  (exif'.ok /\ Truthy(metadataText)) =>
                  /\ outcome'.kind = "resolved"
                  /\ IF parsed.ok
                     THEN /\ result.t = "object"
                          /\ ~IsRecordOf(result, "Automatic1111")
                          /\ parsed.value.t = "object"
                          /\ \A i \in 1..Len(parsed.value.v) :
                                 Get(result, parsed.value.v[i][1]) = parsed.value.v[i][2]
                     ELSE /\ IsRecordOf(result, "Automatic1111")
                          /\ Get(result, "parameters") = metadataText
                          /\ Get(result, "normalizedMetadata")
                                 = parseA1111Metadata(metadataText.v) ]_vars

----------------------------------------------------------------------------
(* Properties of parseComfyUIMetadata, under SpecComfy *)

\* the nodes of the record's UI workflow
UiNodes(metadata) == Get(Get(metadata, "workflow"), "nodes").v

\* no node of the list raises an error in the walk
Walkable(nodes) ==
    \A i \in 1..Len(nodes) : nodes[i] # Null /\ ~ClassTypeThrows(nodes[i])

\* the record has a UI workflow with a node list and no prompt graph
WorkflowOnly(metadata) ==
    /\ ~Truthy(Get(metadata, "prompt"))
    /\ IsArray(Get(Get(metadata, "workflow"), "nodes"))

\* the positive steps of the sampler nodes of a list
SamplerSteps(nodes) ==
    { Get(InputsOf(nodes[i]), "steps") : i \in
        { j \in 1..Len(nodes) : /\ HasWord(ClassTypeOf(nodes[j]), LitSampleWord)
                                /\ IsNumber(Get(InputsOf(nodes[j]), "steps"))
                                /\ Positive(Get(InputsOf(nodes[j]), "steps")) } }

\* C18: for a record with a UI workflow and no prompt graph, when the call
\* is over the ckpt_name of every checkpoint-loader node of the workflow's
\* list is among the normalized models, and the normalized steps are those
\* of a sampler node of the list that gives steps.
C18_WorkflowScanned ==
    (/\ comfyCall.pc = "done"
     /\ WorkflowOnly(comfyCall.metadata)
     /\ Walkable(UiNodes(comfyCall.metadata))) =>
        LET nodes == UiNodes(comfyCall.metadata)
        IN  /\ \A i \in 1..Len(nodes) :
                   (/\ HasWord(ClassTypeOf(nodes[i]), LitCheckpoint)
                    /\ IsString(Get(InputsOf(nodes[i]), "ckpt_name")))
                   => Includes(Get(comfyCall.result, "models").v,
                               Get(InputsOf(nodes[i]), "ckpt_name"))
            /\ SamplerSteps(nodes) # {}
                   => Get(comfyCall.result, "steps") \in SamplerSteps(nodes)

\* C19: a pass of the node loop leaves a width, and a height, that an
\* earlier node has set as it is.
C19_FirstSizeWins ==
    [][ comfyCall.pc = "nodes" =>
            /\ Get(comfyCall.result, "width") # Num(0)
                   => Get(comfyCall'.result, "width") = Get(comfyCall.result, "width")
            /\ Get(comfyCall.result, "height") # Num(0)
                   => Get(comfyCall'.result, "height") = Get(comfyCall.result, "height")
      ]_vars

\* what the node loop alone makes of the nodes of the call
Targeted == TargetedPass(ComfyResultInit, comfyCall.nodes, 1)

\* the fields the fallback passes may fill, and the value each starts with
FallbackFields == {"steps", "cfgScale", "seed", "prompt", "negativePrompt"}

\* the field has been given a value
SetByLoop(result, field) == Get(result, field) # Get(ComfyResultInit, field)

\* C20: a fallback pass leaves each of steps, cfgScale, seed, prompt and
\* negativePrompt that has a value when the pass starts (a seed of 0
\* included) as it is; the first of these passes starts with the values the
\* node loop has set.
C20_FallbacksKeep ==
    [][ comfyCall.pc \in {"promptFallback", "numericFallback", "finalSearch"} =>
            \A field \in FallbackFields :
                SetByLoop(comfyCall.result, field)
                    => Get(comfyCall'.result, field) = Get(comfyCall.result, field)
      ]_vars

\* C20 witness: the node loop has set the seed to 0 and nothing else, a
\* node of the graph offers another seed, and the fallback passes have
\* filled in the steps and the prompt
C20_Witness ==
    /\ comfyCall.pc = "done"
    /\ Len(comfyCall.nodes) = 2
    /\ ~Targeted.threw
    /\ Get(Targeted.result, "seed") = Num(0)
    /\ Get(Targeted.result, "steps") = Num(0)
    /\ Get(Targeted.result, "prompt") = Str(<<>>)
    /\ \E i \in 1..Len(comfyCall.nodes) :
           Get(InputsOf(comfyCall.nodes[i]), "seed") = Num(9)
    /\ Get(comfyCall.result, "steps") = Num(5)
    /\ Truthy(Get(comfyCall.result, "prompt"))
    /\ Get(comfyCall.result, "seed") = Num(0)

\* inputs.text || inputs.prompt || inputs.string of a node, line 1594
EncodeText(node) == Input(InputsOf(node), <<"text", "prompt", "string">>)

\* the node is a text-encode node that offers a text
OffersText(node) ==
    /\ HasWord(ClassTypeOf(node), LitClip)
    /\ HasWord(ClassTypeOf(node), LitTextWord)
    /\ HasWord(ClassTypeOf(node), LitEncode)
    /\ Truthy(EncodeText(node))
    /\ IsString(EncodeText(node))

\* the places of the text-encode nodes whose text is of the polarity
EncodeAt(nodes, negative) ==
    { i \in 1..Len(nodes) : /\ OffersText(nodes[i])
                            /\ IsNegativeText(EncodeText(nodes[i])) = negative }

\* the text of the first text-encode node of the polarity, '' when none
FirstEncodeText(nodes, negative) ==
    IF EncodeAt(nodes, negative) = {} THEN Str(<<>>)
    ELSE LET first == CHOOSE i \in EncodeAt(nodes, negative) :
                          \A j \in EncodeAt(nodes, negative) : i <= j
         IN  EncodeText(nodes[first])

\* C21: when the node loop is over, the normalized prompt is the text of the
\* first text-encode node whose text has no denylisted word and the
\* negativePrompt that of the first whose text has one; later text-encode
\* nodes of the same polarity have not replaced them.
C21_FirstTextWins ==
    comfyCall.pc = "promptFallback" =>
        /\ Get(comfyCall.result, "prompt") = FirstEncodeText(comfyCall.nodes, FALSE)
        /\ Get(comfyCall.result, "negativePrompt") = FirstEncodeText(comfyCall.nodes, TRUE)

\* C21 witness: the node loop is over a graph with two text-encode nodes of
\* different positive texts and the prompt is the text of the first
C21_Witness ==
    /\ comfyCall.pc = "promptFallback"
    /\ \E i, j \in EncodeAt(comfyCall.nodes, FALSE) :
           /\ i < j
           /\ EncodeText(comfyCall.nodes[i]) # EncodeText(comfyCall.nodes[j])
           /\ Get(comfyCall.result, "prompt") = EncodeText(comfyCall.nodes[i])
    /\ EncodeAt(comfyCall.nodes, TRUE) # {}

\* C22: the prompt fallback takes a text for the negative prompt exactly when
\* the text-encode pass would: the text it stores as the prompt is one the
\* text-encode pass holds positive, the text it stores as the negative
\* prompt one the text-encode pass holds negative.
C22_SameDenylist ==
    [][ comfyCall.pc = "promptFallback" =>
            /\ Get(comfyCall'.result, "prompt") # Get(comfyCall.result, "prompt")
                   => ~IsNegativeText(Get(comfyCall'.result, "prompt"))
            /\ Get(comfyCall'.result, "negativePrompt") # Get(comfyCall.result, "negativePrompt")
                   => IsNegativeText(Get(comfyCall'.result, "negativePrompt"))
      ]_vars

\* the node is not a sampler node
NotSampler(node) == ~HasWord(ClassTypeOf(node), LitSampleWord)

\* the numbers the nodes that are no sampler nodes give under a key of the set
OtherNumbers(nodes, keys) ==
    { Get(InputsOf(nodes[i]), key) : key \in keys, i \in
        { j \in 1..Len(nodes) : NotSampler(nodes[j]) } }

\* C26: a fallback pass stores no steps outside (0, 200) and no cfg scale
\* outside (0, 50); a pass of the node loop over a sampler node stores the
\* node's steps and cfg, numbers above 0, whatever their size.
C26_SaneRange ==
    [][ /\ comfyCall.pc \in {"promptFallback", "numericFallback", "finalSearch"} =>
            /\ Get(comfyCall'.result, "steps") # Get(comfyCall.result, "steps")
                   => /\ Positive(Get(comfyCall'.result, "steps"))
                      /\ Below(Get(comfyCall'.result, "steps"), StepsLimit)
            /\ Get(comfyCall'.result, "cfgScale") # Get(comfyCall.result, "cfgScale")
                   => /\ Positive(Get(comfyCall'.result, "cfgScale"))
                      /\ Below(Get(comfyCall'.result, "cfgScale"), CfgLimit)
        /\ (/\ comfyCall.pc = "nodes"
            /\ comfyCall'.pc # "done"
            /\ ~NotSampler(comfyCall.nodes[comfyCall.at])) =>
               LET inputs == InputsOf(comfyCall.nodes[comfyCall.at])
               IN  /\ (IsNumber(Get(inputs, "steps")) /\ Positive(Get(inputs, "steps")))
                          => Get(comfyCall'.result, "steps") = Get(inputs, "steps")
                   /\ (IsNumber(Get(inputs, "cfg")) /\ Positive(Get(inputs, "cfg")))
                          => Get(comfyCall'.result, "cfgScale") = Get(inputs, "cfg")
      ]_vars

\* C26 witness: the call is over; a node that is no sampler node gives steps
\* of 300 and a cfg of 60, the fallback passes have stored its n_steps and
\* its strength instead
C26_Witness ==
    /\ comfyCall.pc = "done"
    /\ Walkable(comfyCall.nodes)
    /\ Num(300) \in OtherNumbers(comfyCall.nodes, {"steps"})
    /\ Num(60) \in OtherNumbers(comfyCall.nodes, {"cfg"})
    /\ Get(comfyCall.result, "steps") = Num(5)
    /\ Get(comfyCall.result, "cfgScale") = Num(2)

\* C23: in the normalized record a call of parseComfyUIMetadata returns, the
\* model is the first of the models whenever there are models.
C23_PrimaryModel ==
    comfyCall.pc = "done" =>
        (Len(Get(comfyCall.result, "models").v) > 0
            => Get(comfyCall.result, "model") = Get(comfyCall.result, "models").v[1])

----------------------------------------------------------------------------
(* Properties of the chunk scan of parsePNGMetadata, under SpecParse *)

\* the offsets of the chunks of a file, each found from the length field of
\* the one before, from offset `at` on
RECURSIVE ChunkOffsets(_, _)
ChunkOffsets(buf, at) ==
    IF at >= Len(buf) \/ ~InRange(buf, at, 4) THEN {}
    ELSE {at} \cup ChunkOffsets(buf, at + 12 + getUint32(buf, at))

\* the type of the chunk at an offset
ChunkType(buf, at) == Decode(Slice(buf, at + 4, at + 8))

\* the data of the chunk at an offset, as the text it decodes to
ChunkData(buf, at) == Decode(Slice(buf, at + 8, at + 8 + getUint32(buf, at)))

\* an IEND chunk stands before the offset
EndBefore(buf, at) ==
    \E o \in ChunkOffsets(buf, 8) : o < at /\ ChunkType(buf, o) = TypeIEND

\* C24: the blob set changes only in a pass of the scan over a tEXt chunk
\* that no IEND chunk precedes, whose keyword is one of invokeai_metadata,
\* parameters, workflow and prompt and whose text is not empty, and the
\* change is that text stored under that keyword; no chunk after the first
\* IEND, no other chunk type, no other keyword and no empty text changes it.
C24_BlobSet ==
    [][ chunks' # chunks =>
            /\ pc = "scan"
            /\ offset \in ChunkOffsets(buffer, 8)
            /\ ~EndBefore(buffer, offset)
            /\ ChunkType(buffer, offset) = TypeTEXT
            /\ \E i \in 1..Len(RelevantKeywords) :
                   /\ SplitKeyword(ChunkData(buffer, offset)) = RelevantKeywords[i].codes
                   /\ IsString(SplitText(ChunkData(buffer, offset)))
                   /\ SplitText(ChunkData(buffer, offset)).v # <<>>
                   /\ chunks' = ChunksSet(chunks, RelevantKeywords[i].name,
                                          SplitText(ChunkData(buffer, offset)))
      ]_vars

\* C24 witness: the scan is over and has recorded a blob; the file holds,
\* after its first IEND, a tEXt chunk with a text under a keyword of the
\* four that is not among the blobs
C24_Witness ==
    /\ pc = "classify"
    /\ DOMAIN chunks # {}
    /\ \E o \in ChunkOffsets(buffer, 8), i \in 1..Len(RelevantKeywords) :
           /\ EndBefore(buffer, o)
           /\ ChunkType(buffer, o) = TypeTEXT
           /\ SplitKeyword(ChunkData(buffer, o)) = RelevantKeywords[i].codes
           /\ Truthy(SplitText(ChunkData(buffer, o)))
           /\ RelevantKeywords[i].name \notin DOMAIN chunks

----------------------------------------------------------------------------
(* Properties of parseA1111Metadata, under SpecA1111 *)

\* the places where newline + 'Negative prompt:' stands in a text
MarkerAt(s) == {i \in 1..Len(s) : MatchesAt(s, LitNegativePrompt, i)}

\* the places where a newline stands before a capitalized word and a colon
KeyLineAt(s) ==
    { i \in 1..Len(s) :
        /\ s[i] = 10
        /\ \E e \in (i + 3)..Len(s) :
               /\ s[e] = 58
               /\ s[i + 1] \in UpperCase
               /\ \A k \in (i + 2)..(e - 1) : s[k] \in LowerCase }

\* the text before a place, trimmed
Before(s, i) == Trim(SubSeq(s, 1, i - 1))

\* C25: the prompt parseA1111Metadata returns is the trimmed text before the
\* first newline + 'Negative prompt:'; without that marker the trimmed text
\* before the first newline followed by a capitalized word and a colon;
\* without either the whole text, trimmed; and the negative prompt is not
\* empty only when the marker is there.
C25_PromptSplit ==
    last.e = "parseA1111Metadata" =>
        LET s == last.parameters
        IN  /\ Get(last.res, "prompt") =
                   Str(IF MarkerAt(s) # {} THEN Before(s, FirstIndex(MarkerAt(s)))
                       ELSE IF KeyLineAt(s) # {} THEN Before(s, FirstIndex(KeyLineAt(s)))
                       ELSE Trim(s))
            /\ Get(last.res, "negativePrompt") # Str(<<>>) => MarkerAt(s) # {}

\* C25 witness: a text with a parameter line before the marker has been
\* parsed; the prompt reaches over the parameter line and the negative
\* prompt is not empty
C25_Witness ==
    /\ last.e = "parseA1111Metadata"
    /\ MarkerAt(last.parameters) # {}
    /\ KeyLineAt(last.parameters) # {}
    /\ FirstIndex(KeyLineAt(last.parameters)) < FirstIndex(MarkerAt(last.parameters))
    /\ Get(last.res, "negativePrompt") # Str(<<>>)
    /\ Len(Get(last.res, "prompt").v) > FirstIndex(KeyLineAt(last.parameters))

----------------------------------------------------------------------------
(* Properties of the board resolver and of extractBoard *)

\* 'My Board k'
BoardLabel(k) == Str(<<77, 121, 32, 66, 111, 97, 114, 100, 32>> \o ToDecimal(k))

\* C27: under Spec, the counter is always the number of cached board ids
\* plus one, and a board id that enters the cache as the k-th is named
\* 'My Board k'.
C27_CounterNames ==
    /\ [](boardCounter = Cardinality(DOMAIN boardIdCache) + 1)
    /\ [][ \A boardId \in DOMAIN boardIdCache' \ DOMAIN boardIdCache :
               boardIdCache'[boardId] = BoardLabel(Cardinality(DOMAIN boardIdCache) + 1)
         ]_vars

\* C27 witness: every board id is cached; the second id was resolved first
\* and the first id last, and they are named by that order
C27_Witness ==
    /\ Cardinality(DOMAIN boardIdCache) = MaxBoardIds
    /\ boardIdCache[BoardId(2)] = BoardLabel(1)
    /\ boardIdCache[BoardId(1)] = BoardLabel(MaxBoardIds)
    /\ boardCounter = MaxBoardIds + 1

\* the record's label stands in one of the fields board_name, board_id,
\* boardName, boardId, 'Board Name' and board
HasDirectLabel(metadata) ==
    \/ \E field \in {"board_name", "board_id", "boardName", "boardId", "Board Name"} :
           IsString(Get(metadata, field)) /\ Get(metadata, field).v # <<>>
    \/ /\ TypeOf(Get(metadata, "board")) = "object" /\ Get(metadata, "board") # Null
       /\ \E field \in {"name", "board_name", "id"} :
              Truthy(Get(Get(metadata, "board"), field))
    \/ IsString(Get(metadata, "board")) /\ Get(metadata, "board").v # <<>>

\* the board ids a record carries for the resolver: in canvas_v2_metadata,
\* and on the l2i and canvas_output nodes of its workflow
ResolverIds(metadata) ==
    { Get(Get(metadata, "canvas_v2_metadata"), "board_id"),
      Get(Get(Get(metadata, "canvas_v2_metadata"), "board"), "board_id") }
    \cup (IF IsArray(Get(Get(metadata, "workflow"), "nodes"))
          THEN { Get(Get(Get(Get(Get(node, "data"), "inputs"), "board"), "value"), "board_id") :
                   node \in { Get(Get(metadata, "workflow"), "nodes").v[i] :
                                i \in 1..Len(Get(Get(metadata, "workflow"), "nodes").v) } }
          ELSE {})

\* C28: under SpecFields, a call of extractBoard on a record that is not
\* InvokeAI, or whose label stands in a direct field, leaves the cache and
\* the counter as they are; any call adds at most one entry to the cache,
\* and adds one only for an InvokeAI record without a direct label, under a
\* board id of its canvas_v2_metadata or of a workflow node that the cache
\* did not hold.
C28_BoardFrame ==
    [][ (last' # NoCall /\ last'.e = "extractBoard") =>
            LET metadata == last'.metadata
            IN  /\ (~isInvokeAIMetadata(metadata) \/ HasDirectLabel(metadata))
                       => UNCHANGED <<boardIdCache, boardCounter>>
                /\ \A k \in DOMAIN boardIdCache :
                       k \in DOMAIN boardIdCache' /\ boardIdCache'[k] = boardIdCache[k]
                /\ Cardinality(DOMAIN boardIdCache' \ DOMAIN boardIdCache) <= 1
                /\ \A k \in DOMAIN boardIdCache' \ DOMAIN boardIdCache :
                       /\ isInvokeAIMetadata(metadata)
                       /\ ~HasDirectLabel(metadata)
                       /\ k \in ResolverIds(metadata)
      ]_vars

\* C28 witness: with a board id cached, extractBoard was called on a record
\* that has a label in the field board next to a canvas board id; the id
\* is not in the cache
C28_Witness ==
    /\ last # NoCall /\ last.e = "extractBoard"
    /\ last.metadata \in BoardFieldRecords
    /\ HasDirectLabel(last.metadata)
    /\ DOMAIN boardIdCache # {}
    /\ CanvasIdOf(last.metadata) \notin DOMAIN boardIdCache

----------------------------------------------------------------------------
(* Properties of processDirectory's progress and result, under SpecBatch *)

\* the files call r goes through
Total(r) == Len(ImageFiles(r))

\* C29: the first setProgress call of a run reports 0 of the number of image
\* files; every later call reports the same total and a greater current that
\* is at most the total and is a multiple of 20 or the total; and a run over
\* at least one file that has returned has reported current = total, whether
\* or not files failed or held no metadata.
C29_Progress ==
    /\ [](\A r \in DOMAIN runs :
             (runs[r].pc = "done" /\ Total(r) > 0)
                 => runs[r].progress = [current |-> Total(r), total |-> Total(r)])
    /\ [][ \A r \in DOMAIN runs :
               /\ runs[r].progress = NoProgress /\ runs'[r].progress # NoProgress
                      => runs'[r].progress = [current |-> 0, total |-> Total(r)]
               /\ runs[r].progress # NoProgress /\ runs'[r].progress # runs[r].progress
                      => /\ runs'[r].progress.total = runs[r].progress.total
                         /\ runs'[r].progress.current > runs[r].progress.current
                         /\ runs'[r].progress.current <= runs'[r].progress.total
                         /\ \/ runs'[r].progress.current % 20 = 0
                            \/ runs'[r].progress.current = runs'[r].progress.total
         ]_vars

\* C29 witness: the call on the large directory, some of whose files failed
\* or held no metadata, has reported the second batch of 20 of its 41 files
C29_Witness ==
    \E r \in DOMAIN runs :
        /\ Total(r) = LargeFiles
        /\ runs[r].progress = [current |-> 2 * ProgressBatch, total |-> LargeFiles]
        /\ \E i \in 1..Len(runs[r].log) : ~runs[r].log[i].record

\* file i of call r was indexed: its awaits gave a metadata record and its
\* fields were extracted
Indexed(r, i) ==
    runs[r].log[i].record /\ ~PromptThrows(ImageFiles(r)[i].metadata)

\* the files of call r that are the first indexed ones of their name
Kept(r) ==
    { i \in 1..Total(r) :
        /\ Indexed(r, i)
        /\ \A j \in 1..(i - 1) :
               Indexed(r, j) => ImageFiles(r)[j].name # ImageFiles(r)[i].name }

\* the k-th of a set of places
Nth(places, k) == CHOOSE i \in places : Cardinality({j \in places : j <= i}) = k

\* C30: the list a run returns holds no two records of the same file name;
\* it holds, of the files sharing a name, the first in processing order that
\* was indexed, and holds the records in processing order.
C30_UniqueNames ==
    \A r \in DOMAIN runs :
        runs[r].pc = "done" =>
            LET unique == runs[r].uniqueImages
            IN  /\ \A i, j \in 1..Len(unique) :
                       unique[i].name = unique[j].name => i = j
                /\ Len(unique) = Cardinality(Kept(r))
                /\ \A k \in 1..Len(unique) :
                       /\ unique[k].name = ImageFiles(r)[Nth(Kept(r), k)].name
                       /\ unique[k].metadata = ImageFiles(r)[Nth(Kept(r), k)].metadata

\* C30 witness: the call on the large directory has returned; its first
\* file failed, so that the record kept under the first name is that of a
\* later file, and more files were indexed than are returned
C30_Witness ==
    \E r \in DOMAIN runs :
        /\ runs[r].pc = "done"
        /\ Total(r) > SharedNames
        /\ ~Indexed(r, 1)
        /\ Len(runs[r].uniqueImages) = SharedNames
        /\ Len(runs[r].indexedImages) > SharedNames
        /\ runs[r].uniqueImages[1].name # ImageFiles(r)[1].name
        /\ \E k \in 1..Len(runs[r].uniqueImages) :
               /\ runs[r].uniqueImages[k].name = ImageFiles(r)[1].name
               /\ runs[r].uniqueImages[k].metadata # ImageFiles(r)[1].metadata

====
